---- MODULE Spec2Model ----
(***************************************************************************)
(* Model of the cost-analytics core of AI-Cost-Optimization-Dashboard:     *)
(*   - the recommendation & savings ledger (savings_tracker.py),           *)
(*   - the trend / forecast / budget engine (cost_forecaster.py),          *)
(*   - the anomaly detector (anomaly_detector.py).                         *)
(*                                                                         *)
(* Money is counted in whole cents, so round(x, 2) of the source is exact  *)
(* on every value of the model.  Percentages that the source rounds to one *)
(* decimal are counted in tenths of a percent, those it rounds to two      *)
(* decimals in hundredths.  A nullable column holds << >> for SQL NULL /   *)
(* Python None and <<v>> for the value v.                                  *)
(***************************************************************************)
EXTENDS Integers, Sequences, FiniteSets, TLC

\* recs, snaps: the two tables of the datastore;  clock: datetime.now() in
\* seconds;  calls: write calls made so far;  daily_costs: the cost series
\* handed to the statistics functions, one amount in whole dollars per day;
\* configured_accounts: self.accounts of the MultiAccountAnalyzer, empty while
\* none is constructed;  ret: what the last call returned;  writer: the
\* connection that holds the datastore's write lock, if any;  workers: the
\* position and local variables of every process or thread at work;
\* _cache: the module-level cache entry of app.py;  client: whether the
\* CostForecaster at hand was constructed with an API key (self.client);
\* environ: the value of DASHBOARD_API_TOKEN in the environment of app.py
VARIABLES recs, snaps, clock, calls, daily_costs, configured_accounts, ret,
          writer, workers, _cache, client, environ

vars == <<recs, snaps, clock, calls, daily_costs, configured_accounts, ret,
          writer, workers, _cache, client, environ>>

(***************************************************************************)
(* Bounds of the model                                                     *)
(***************************************************************************)
\* number of write calls (add / mark / snapshot) made on one datastore
MaxCalls == 3
\* last clock second of the run (datetime.now() truncated to seconds)
MaxClock == 1
\* seconds of a calendar day: snapshot_date keeps the day only
DayLen == 86400

NULL == << >>
Some(v) == <<v>>
IsNull(x) == x = << >>
Val(x) == x[1]

\* _cache = {"ts": 0, "key": None, "payload": None}
EmptyCache == [ts |-> 0, key |-> NULL, payload |-> NULL]

\* no connection holds the write lock, nobody is at work, nothing is cached,
\* no API key is configured
Idle ==
  /\ environ = NULL
  /\ client = FALSE
  /\ writer = NULL
  /\ workers = << >>
  /\ _cache = EmptyCache

\* estimated_savings arguments, in cents: zero is accepted without validation
Estimates == {0, 10000}
\* actual_savings arguments, in cents; NULL is the default None
Actuals == {NULL, Some(9000)}
\* notes argument of mark_implemented and reason argument of mark_rejected
ImplNotes == {"done"}
Reasons == {"dup"}
\* total_cost arguments of add_cost_snapshot, in cents
SnapshotCosts == {85000}
SnapshotAccounts == {"default"}
\* status filters of get_recommendations
StatusFilters == {NULL, Some(""), Some("pending"), Some("implemented"), Some("rejected")}

(***************************************************************************)
(* Arithmetic helpers                                                      *)
(***************************************************************************)
Abs(x) == IF x < 0 THEN -x ELSE x

\* Python round() of the rational n/d to an integer: nearest, ties to even
RoundDiv(n, d) ==
  LET nn == IF d < 0 THEN -n ELSE n
      dd == Abs(d)
      q  == nn \div dd
      r  == nn % dd
  IN  IF 2 * r < dd THEN q
      ELSE IF 2 * r > dd THEN q + 1
      ELSE IF q % 2 = 0 THEN q ELSE q + 1

RECURSIVE SumSeq(_)
SumSeq(s) == IF s = << >> THEN 0 ELSE Head(s) + SumSeq(Tail(s))

\* SQL SUM over the values an expression takes on the rows: NULL on an empty table
SqlSum(column) == IF Len(column) = 0 THEN NULL ELSE Some(SumSeq(column))

\* Python "x or 0" on an aggregate column: None and 0 both give 0
OrZero(x) == IF IsNull(x) THEN 0 ELSE IF Val(x) = 0 THEN 0 ELSE Val(x)

(***************************************************************************)
(* The ledger: tables and rows                                             *)
(***************************************************************************)
\* a row of table recommendations as INSERTed by add_recommendation
NewRecommendation(now, est) ==
  [created_date |-> now,
   estimated_monthly_savings |-> est,
   status |-> "pending",
   implemented_date |-> NULL,
   actual_monthly_savings |-> NULL,
   notes |-> NULL]

\* a faulty NextRecId: the rowid of the last row is handed out again
NextRecIdReused(rs) == Len(rs)

\* INTEGER PRIMARY KEY AUTOINCREMENT: rows are never deleted, so the next
\* rowid is one more than the number of rows
NextRecId(rs) == Len(rs) + 1
NextSnapId(ss) == Len(ss) + 1

\* strftime('%Y-%m-%d'): the day of a clock second
DayOf(t) == t \div DayLen

\* the service_breakdown column: json text, or NULL for None and for {}
BreakdownColumn(b) == IF b = NULL \/ Val(b) = << >> THEN NULL ELSE Some(<<"json", Val(b)>>)

NewSnapshot(now, cost, account, days, breakdown) ==
  [snapshot_date |-> DayOf(now),
   account_name |-> account,
   total_cost |-> cost,
   period_days |-> days,
   service_breakdown |-> BreakdownColumn(breakdown)]

\* UPDATE recommendations SET status = 'implemented', ... WHERE id = ?
UpdateImplemented(rs, id, now, actual, n) ==
  [i \in DOMAIN rs |->
     IF i = id
     THEN [rs[i] EXCEPT !.status = "implemented",
                        !.implemented_date = Some(now),
                        !.actual_monthly_savings = actual,
                        !.notes = Some(n)]
     ELSE rs[i]]

\* UPDATE recommendations SET status = 'rejected', notes = ? WHERE id = ?
UpdateRejected(rs, id, reason) ==
  [i \in DOMAIN rs |->
     IF i = id
     THEN [rs[i] EXCEPT !.status = "rejected", !.notes = Some(reason)]
     ELSE rs[i]]

\* a faulty RowCount: the rowcount of an UPDATE that has lost its WHERE clause
RowCountAnyRow(rs, id) == Cardinality(DOMAIN rs)

\* cursor.rowcount of an UPDATE ... WHERE id = ?
RowCount(rs, id) == Cardinality({i \in DOMAIN rs : i = id})

(***************************************************************************)
(* get_roi_summary                                                         *)
(***************************************************************************)
Case01(c) == IF c THEN 1 ELSE 0

\* a faulty AccuracyData: the WHERE clause has lost status = 'implemented'
AccuracyDataAnyStatus(rs) ==
  SelectSeq(rs, LAMBDA r : ~IsNull(r.actual_monthly_savings))

\* the rows of the second SELECT: implemented, with an actual value recorded
AccuracyData(rs) ==
  SelectSeq(rs, LAMBDA r : r.status = "implemented" /\ ~IsNull(r.actual_monthly_savings))

\* accuracy = 100 - (avg_diff / (sum(est) / len)) * 100, in tenths of a percent;
\* with D = sum |est - act| and E = sum est this is 100 * (E - D) / E
AccuracyTenths(data) ==
  LET D == SumSeq([i \in 1..Len(data) |->
                     Abs(data[i].estimated_monthly_savings - Val(data[i].actual_monthly_savings))])
      E == SumSeq([i \in 1..Len(data) |-> data[i].estimated_monthly_savings])
  IN  RoundDiv(1000 * (E - D), E)

\* the division avg_diff / (sum(est) / len(accuracy_data)) has a zero divisor
RoiDivisorIsZero(rs) ==
  LET data == AccuracyData(rs)
  IN  /\ Len(data) > 0
      /\ SumSeq([i \in 1..Len(data) |-> data[i].estimated_monthly_savings]) = 0

RoiSummaryValue(rs) ==
  LET rows == 1..Len(rs)
      total == OrZero(Some(Len(rs)))
      implemented == OrZero(SqlSum([i \in rows |-> Case01(rs[i].status = "implemented")]))
      rejected == OrZero(SqlSum([i \in rows |-> Case01(rs[i].status = "rejected")]))
      pending == OrZero(SqlSum([i \in rows |-> Case01(rs[i].status = "pending")]))
      total_estimated == OrZero(SqlSum([i \in rows |-> rs[i].estimated_monthly_savings]))
      implemented_estimated ==
        OrZero(SqlSum([i \in rows |-> IF rs[i].status = "implemented"
                                       THEN rs[i].estimated_monthly_savings ELSE 0]))
      total_actual ==
        OrZero(SqlSum([i \in rows |-> IF rs[i].status = "implemented"
                                          /\ ~IsNull(rs[i].actual_monthly_savings)
                                       THEN Val(rs[i].actual_monthly_savings) ELSE 0]))
      data == AccuracyData(rs)
  IN  [total_recommendations |-> total,
       implemented |-> implemented,
       rejected |-> rejected,
       pending |-> pending,
       implementation_rate |-> IF total > 0 THEN RoundDiv(implemented * 1000, total) ELSE 0,
       total_estimated_savings |-> total_estimated,
       implemented_estimated_savings |-> implemented_estimated,
       total_actual_savings |-> total_actual,
       forecast_accuracy |-> IF Len(data) > 0 THEN AccuracyTenths(data) ELSE 0,
       annual_projected_savings |-> total_actual * 12]

\* what a call of get_roi_summary gives its caller
RoiSummary(rs) ==
  IF RoiDivisorIsZero(rs)
  THEN [raised |-> TRUE, value |-> "ZeroDivisionError"]
  ELSE [raised |-> FALSE, value |-> RoiSummaryValue(rs)]

(***************************************************************************)
(* get_recommendations and get_cost_trend                                  *)
(***************************************************************************)
\* "if status:" -- None and the empty string select the unfiltered query
HasFilter(status) == ~IsNull(status) /\ Val(status) # ""

\* the ids of the rows the WHERE clause keeps
SelectedRecs(rs, status) ==
  {i \in DOMAIN rs : HasFilter(status) => rs[i].status = Val(status)}

\* ORDER BY <key> DESC: every order of the ids in S that is descending in
\* key; SQL leaves the order of rows with equal keys unspecified
RECURSIVE DescOrders(_, _)
DescOrders(S, key) ==
  IF S = {} THEN {<< >>}
  ELSE UNION {{<<x>> \o t : t \in DescOrders(S \ {x}, key)} :
                x \in {y \in S : \A z \in S : key[y] >= key[z]}}

\* dict(row) of a recommendations row
RecDict(rs, i) == [id |-> i] @@ rs[i]

RecommendationOrders(rs, status) ==
  {[k \in 1..Len(o) |-> RecDict(rs, o[k])] :
     o \in DescOrders(SelectedRecs(rs, status), [i \in DOMAIN rs |-> rs[i].created_date])}

\* json.loads of a stored breakdown; a NULL column is kept as it is
LoadBreakdown(col) == IF IsNull(col) THEN NULL ELSE Some(Val(col)[2])

SnapDict(ss, i) == [[id |-> i] @@ ss[i] EXCEPT !.service_breakdown = LoadBreakdown(@)]

\* LIMIT n
Limit(o, n) == SubSeq(o, 1, IF Len(o) < n THEN Len(o) ELSE n)

CostTrendOrders(ss, account, limit) ==
  {[k \in 1..Len(Limit(o, limit)) |-> SnapDict(ss, o[k])] :
     o \in DescOrders({i \in DOMAIN ss : ss[i].account_name = account},
                      [i \in DOMAIN ss |-> ss[i].snapshot_date])}

(***************************************************************************)
(* Operations of SavingsTracker; ret is what the last call returned        *)
(***************************************************************************)
Return(op, args, value) == [op |-> op, args |-> args, raised |-> FALSE, value |-> value]

add_recommendation(est) ==
  /\ calls < MaxCalls
  /\ recs' = Append(recs, NewRecommendation(clock, est))
  /\ ret' = Return("add_recommendation", <<est>>, NextRecId(recs))
  /\ calls' = calls + 1
  /\ UNCHANGED <<environ, client, writer, workers, _cache, configured_accounts, daily_costs, snaps, clock>>

mark_implemented(id, actual, n) ==
  /\ calls < MaxCalls
  /\ recs' = UpdateImplemented(recs, id, clock, actual, n)
  /\ ret' = Return("mark_implemented", <<id, actual, n>>, RowCount(recs, id) > 0)
  /\ calls' = calls + 1
  /\ UNCHANGED <<environ, client, writer, workers, _cache, configured_accounts, daily_costs, snaps, clock>>

mark_rejected(id, reason) ==
  /\ calls < MaxCalls
  /\ recs' = UpdateRejected(recs, id, reason)
  /\ ret' = Return("mark_rejected", <<id, reason>>, RowCount(recs, id) > 0)
  /\ calls' = calls + 1
  /\ UNCHANGED <<environ, client, writer, workers, _cache, configured_accounts, daily_costs, snaps, clock>>

\* a faulty add_cost_snapshot: the INSERT replaces the stored snapshots
add_cost_snapshot_replacing(cost, account, days, breakdown) ==
  /\ calls < MaxCalls
  /\ snaps' = <<NewSnapshot(clock, cost, account, days, breakdown)>>
  /\ ret' = Return("add_cost_snapshot", <<cost, account, days, breakdown>>, NextSnapId(snaps))
  /\ calls' = calls + 1
  /\ UNCHANGED <<environ, client, writer, workers, _cache, configured_accounts, daily_costs, recs, clock>>

add_cost_snapshot(cost, account, days, breakdown) ==
  /\ calls < MaxCalls
  /\ snaps' = Append(snaps, NewSnapshot(clock, cost, account, days, breakdown))
  /\ ret' = Return("add_cost_snapshot", <<cost, account, days, breakdown>>, NextSnapId(snaps))
  /\ calls' = calls + 1
  /\ UNCHANGED <<environ, client, writer, workers, _cache, configured_accounts, daily_costs, recs, clock>>

get_roi_summary ==
  /\ ret' = [op |-> "get_roi_summary", args |-> << >>] @@ RoiSummary(recs)
  /\ UNCHANGED <<environ, client, writer, workers, _cache, configured_accounts, daily_costs, recs, snaps, clock, calls>>

get_recommendations(status) ==
  /\ \E rows \in RecommendationOrders(recs, status) :
       ret' = Return("get_recommendations", <<status>>, rows)
  /\ UNCHANGED <<environ, client, writer, workers, _cache, configured_accounts, daily_costs, recs, snaps, clock, calls>>

get_cost_trend(account, limit) ==
  /\ \E rows \in CostTrendOrders(snaps, account, limit) :
       ret' = Return("get_cost_trend", <<account, limit>>, rows)
  /\ UNCHANGED <<environ, client, writer, workers, _cache, configured_accounts, daily_costs, recs, snaps, clock, calls>>

\* datetime.now() moves on between two calls
Tick ==
  /\ clock < MaxClock
  /\ clock' = clock + 1
  /\ UNCHANGED <<environ, client, writer, workers, _cache, configured_accounts, daily_costs, recs, snaps, calls, ret>>

\* ids a caller passes to the mark calls: every id in use and the next, unused one
IdArgs == 1..(Len(recs) + 1)
Breakdowns == {Some(<< >>), Some(<<<<"EC2", 50000>>>>)}
TrendLimits == {1, 30}

Init ==
  /\ recs = << >>
  /\ snaps = << >>
  /\ clock = 0
  /\ calls = 0
  /\ daily_costs = << >>
  /\ configured_accounts = << >>
  /\ Idle
  /\ ret = Return("__init__", << >>, NULL)

Next ==
  \/ \E est \in Estimates : add_recommendation(est)
  \/ \E id \in IdArgs, actual \in Actuals, n \in ImplNotes : mark_implemented(id, actual, n)
  \/ \E id \in IdArgs, reason \in Reasons : mark_rejected(id, reason)
  \/ \E cost \in SnapshotCosts, account \in SnapshotAccounts, breakdown \in Breakdowns :
       add_cost_snapshot(cost, account, 7, breakdown)
  \/ get_roi_summary
  \/ \E status \in StatusFilters : get_recommendations(status)
  \/ \E account \in SnapshotAccounts, limit \in TrendLimits :
       get_cost_trend(account, limit)
  \/ Tick

Spec == Init /\ [][Next]_vars

(***************************************************************************)
(* Claims about the ledger                                                 *)
(***************************************************************************)
\* the step just taken is a call of the write operation op
WriteStep(op) == calls' = calls + 1 /\ ret'.op = op

\* the ids listed by some / by every possible answer of get_recommendations(status)
ListedIn(rs, status, id) ==
  \A rows \in RecommendationOrders(rs, status) :
     \E k \in 1..Len(rows) : rows[k].id = id /\ rows[k].status = Val(status)
NotListedIn(rs, status, id) ==
  \A rows \in RecommendationOrders(rs, status) :
     \A k \in 1..Len(rows) : rows[k].id # id

\* C1: a recommendation's status changes at most once: once a record is
\* implemented or rejected, no later call changes its status again.
C1_StatusIsTerminal ==
  [][\A i \in DOMAIN recs :
       recs[i].status # "pending" => recs'[i].status = recs[i].status]_vars

\* C2: after add_recommendation(e) the new id is listed under 'pending' with
\* status pending; after mark_implemented(id, a) of that pending record the
\* id is no longer listed under 'pending', is listed under 'implemented', and
\* get_roi_summary().implemented_estimated_savings has grown by exactly e.
C2_RoundTrip ==
  [][/\ WriteStep("add_recommendation") =>
          ListedIn(recs', Some("pending"), ret'.value)
     /\ (/\ WriteStep("mark_implemented")
         /\ ret'.args[1] \in DOMAIN recs
         /\ recs[ret'.args[1]].status = "pending")
        => LET id == ret'.args[1]
               before == RoiSummary(recs)
               after == RoiSummary(recs')
           IN  /\ NotListedIn(recs', Some("pending"), id)
               /\ ListedIn(recs', Some("implemented"), id)
               /\ ~before.raised
               /\ ~after.raised
               /\ after.value.implemented_estimated_savings
                    = before.value.implemented_estimated_savings
                      + recs[id].estimated_monthly_savings]_vars

\* C3: mark_implemented and mark_rejected return true exactly when a row with
\* the id exists; for an unknown id they return false without raising and
\* leave every recommendation and every snapshot as it was.
C3_MarkReturnsExistence ==
  [][(WriteStep("mark_implemented") \/ WriteStep("mark_rejected"))
     => LET id == ret'.args[1]
        IN  /\ ~ret'.raised
            /\ ret'.value = (id \in DOMAIN recs)
            /\ id \notin DOMAIN recs => (recs' = recs /\ snaps' = snaps)]_vars

C3_Witness ==
  /\ ret.op = "mark_rejected"
  /\ ret.value = FALSE
  /\ Len(recs) >= 1

\* C4: after any successful mark_rejected(id, reason) the record id has
\* status rejected, notes equal to reason and actual_monthly_savings null.
C4_RejectedHasNoActual ==
  (ret.op = "mark_rejected" /\ ret.value = TRUE)
  => LET r == recs[ret.args[1]]
     IN  /\ r.status = "rejected"
         /\ r.notes = Some(ret.args[2])
         /\ IsNull(r.actual_monthly_savings)

\* C7: every add_recommendation succeeds and returns an id that no existing
\* record has (rows are never removed, so no earlier call returned it); the
\* new record is pending with implemented_date, actual_monthly_savings and
\* notes null, and no existing recommendation or snapshot changes.
C7_AddReturnsFreshId ==
  [][/\ DOMAIN recs \subseteq DOMAIN recs'
     /\ WriteStep("add_recommendation")
        => LET id == ret'.value
           IN  /\ ~ret'.raised
               /\ id \notin DOMAIN recs
               /\ id \in DOMAIN recs'
               /\ recs'[id].status = "pending"
               /\ IsNull(recs'[id].implemented_date)
               /\ IsNull(recs'[id].actual_monthly_savings)
               /\ IsNull(recs'[id].notes)
               /\ recs'[id].estimated_monthly_savings = ret'.args[1]
               /\ \A i \in DOMAIN recs : recs'[i] = recs[i]
               /\ DOMAIN recs' = DOMAIN recs \cup {id}
               /\ snaps' = snaps]_vars

C7_Witness ==
  /\ ret.op = "add_recommendation"
  /\ ret.value = 2
  /\ recs[1].status # "pending"

\* C8: get_recommendations(status) returns exactly the records whose status
\* equals the filter (all records without a filter), most recently created
\* first: a record created by a later call comes before every record created
\* by an earlier call, also when both were created within one clock second.
C8_NewestFirst ==
  ret.op = "get_recommendations"
  => LET rows == ret.value
         status == ret.args[1]
     IN  /\ {rows[k].id : k \in 1..Len(rows)}
              = {i \in DOMAIN recs : HasFilter(status) => recs[i].status = Val(status)}
         /\ \A k \in 1..Len(rows) : rows[k] = RecDict(recs, rows[k].id)
         /\ \A j, k \in 1..Len(rows) : j < k => rows[j].id > rows[k].id

\* C9: cost snapshots are append-only: add_cost_snapshot succeeds, appends
\* exactly one snapshot and changes no stored snapshot and no recommendation;
\* every other operation, reads included, leaves the snapshots as they are.
C9_SnapshotsAppendOnly ==
  [][/\ Len(snaps') >= Len(snaps)
     /\ \A i \in DOMAIN snaps : snaps'[i] = snaps[i]
     /\ WriteStep("add_cost_snapshot")
        => /\ ~ret'.raised
           /\ Len(snaps') = Len(snaps) + 1
           /\ ret'.value = Len(snaps')
           /\ recs' = recs
     /\ ~WriteStep("add_cost_snapshot") => snaps' = snaps]_vars

C9_Witness ==
  /\ Len(snaps) = 2
  /\ ret.op = "get_cost_trend"

(***************************************************************************)
(* get_roi_summary as a function of the ledger: a specification that opens *)
(* a datastore holding rows left by earlier calls and reads the summary    *)
(***************************************************************************)
\* number of rows in the datastore that is opened
MaxRows == 2

RoiEstimates == {-5000, 0, 5000, 10000}
RoiActuals == {NULL, Some(6000), Some(9000)}

\* the row add_recommendation(est) created, after the mark calls in hist
RECURSIVE RowAfter(_, _)
RowAfter(est, hist) ==
  IF hist = << >> THEN NewRecommendation(0, est)
  ELSE LET before == <<RowAfter(est, SubSeq(hist, 1, Len(hist) - 1))>>
           call == hist[Len(hist)]
       IN  IF call[1] = "mark_implemented"
           THEN UpdateImplemented(before, 1, 0, call[2], "done")[1]
           ELSE UpdateRejected(before, 1, "dup")[1]

MarkHistories ==
  {<< >>, <<<<"mark_rejected">>>>}
  \cup {<<<<"mark_implemented", a>>>> : a \in RoiActuals}
  \cup {<<<<"mark_implemented", a>>, <<"mark_rejected">>>> : a \in RoiActuals}

StoredRows == {RowAfter(est, hist) : est \in RoiEstimates, hist \in MarkHistories}

StoredLedgers == UNION {[1..n -> StoredRows] : n \in 0..MaxRows}

InitRoi ==
  /\ recs \in StoredLedgers
  /\ snaps = << >>
  /\ clock = 0
  /\ calls = 0
  /\ daily_costs = << >>
  /\ configured_accounts = << >>
  /\ Idle
  /\ ret = Return("__init__", << >>, NULL)

NextRoi == get_roi_summary

SpecRoi == InitRoi /\ [][NextRoi]_vars

(***************************************************************************)
(* Claims about get_roi_summary                                            *)
(***************************************************************************)
RECURSIVE SetSum(_, _)
SetSum(S, f) ==
  IF S = {} THEN 0
  ELSE LET x == CHOOSE y \in S : TRUE IN f[x] + SetSum(S \ {x}, f)

WithStatus(rs, st) == {i \in DOMAIN rs : rs[i].status = st}
WithActual(rs) ==
  {i \in DOMAIN rs : rs[i].status = "implemented" /\ rs[i].actual_monthly_savings # NULL}
EstimateOf(rs) == [i \in DOMAIN rs |-> rs[i].estimated_monthly_savings]
ActualOf(rs) ==
  [i \in DOMAIN rs |-> IF rs[i].actual_monthly_savings = NULL THEN 0
                       ELSE Val(rs[i].actual_monthly_savings)]

\* q is n/d rounded to the nearest integer
IsNearest(q, n, d) == 2 * Abs(q * d - n) <= Abs(d)

\* the counts and sums of the summary v are those of the ledger rs
MatchesLedger(v, rs) ==
  /\ v.total_recommendations = Cardinality(DOMAIN rs)
  /\ v.total_recommendations = v.implemented + v.rejected + v.pending
  /\ v.implemented = Cardinality(WithStatus(rs, "implemented"))
  /\ v.rejected = Cardinality(WithStatus(rs, "rejected"))
  /\ v.pending = Cardinality(WithStatus(rs, "pending"))
  /\ v.total_estimated_savings = SetSum(DOMAIN rs, EstimateOf(rs))
  /\ v.implemented_estimated_savings = SetSum(WithStatus(rs, "implemented"), EstimateOf(rs))
  /\ v.total_actual_savings = SetSum(WithActual(rs), ActualOf(rs))
  /\ IF rs = << >> THEN v.implementation_rate = 0
     ELSE IsNearest(v.implementation_rate, 1000 * v.implemented, v.total_recommendations)
  /\ v.annual_projected_savings = 12 * v.total_actual_savings
  /\ rs = << >> => v.forecast_accuracy = 0

\* C5: in every reachable ledger state get_roi_summary returns the reference
\* aggregate over the current records: the counts by status, the sums of
\* estimates and of actual savings, the implementation rate (in tenths of a
\* percent) and the annual projection; every field is 0 on an empty ledger.
C5_SummaryIsReference ==
  ret.op = "get_roi_summary" => (~ret.raised /\ MatchesLedger(ret.value, recs))

\* Wherever get_roi_summary returns, what it returns is the reference aggregate.
SummaryIsReferenceWhenReturned ==
  (ret.op = "get_roi_summary" /\ ~ret.raised) => MatchesLedger(ret.value, recs)

\* the ledger of the ROI example: (estimated, actual) = (100, 90) and (50, 60)
RoiExample ==
  <<RowAfter(10000, <<<<"mark_implemented", Some(9000)>>>>),
    RowAfter(5000, <<<<"mark_implemented", Some(6000)>>>>)>>

MinPoints == 7

RECURSIVE SeqMin(_)
SeqMin(s) ==
  IF Len(s) = 1 THEN s[1]
  ELSE LET m == SeqMin(Tail(s)) IN IF Head(s) < m THEN Head(s) ELSE m

RECURSIVE SeqMax(_)
SeqMax(s) ==
  IF Len(s) = 1 THEN s[1]
  ELSE LET m == SeqMax(Tail(s)) IN IF Head(s) > m THEN Head(s) ELSE m

SumSquares(s) == SumSeq([i \in 1..Len(s) |-> s[i] * s[i]])

\* round() of q + r/d, where 0 <= r < d.  An exact half goes to the even
\* neighbour; the source rounds a binary float, so at an exact decimal half
\* its result is the neighbour on the side where that float happens to lie.
RoundParts(q, r, d) ==
  IF 2 * r < d THEN q
  ELSE IF 2 * r > d THEN q + 1
  ELSE IF q % 2 = 0 THEN q ELSE q + 1

\* round(a * b / d) for d > 0, formed so that no intermediate product
\* leaves the 32-bit integers of the model checker
MulDivRound(a, b, d) ==
  LET x == (a % d) * b
  IN  RoundParts((a \div d) * b + x \div d, x % d, d)

\* <<floor(100^k * p / q), remainder>> for p >= 0, q > 0
RECURSIVE ScaleDiv(_, _, _)
ScaleDiv(p, q, k) ==
  IF k = 0 THEN <<p \div q, p % q>>
  ELSE LET qr == ScaleDiv(p, q, k - 1)
       IN  <<100 * qr[1] + (100 * qr[2]) \div q, (100 * qr[2]) % q>>

\* the largest s in lo..hi with s * s <= y
RECURSIVE ISqrtIn(_, _, _)
ISqrtIn(y, lo, hi) ==
  IF lo = hi THEN lo
  ELSE LET mid == (lo + hi + 1) \div 2
       IN  IF mid * mid <= y THEN ISqrtIn(y, mid, hi) ELSE ISqrtIn(y, lo, mid - 1)

ISqrt(y) == ISqrtIn(y, 0, 46340)

\* round(10^k * (p / q) ** 0.5) for p >= 0, q > 0
RoundSqrt(p, q, k) ==
  LET qr == ScaleDiv(p, q, k)
      s == ISqrt(qr[1])
  IN  IF qr[1] > s * s + s \/ (qr[1] = s * s + s /\ 4 * qr[2] >= q) THEN s + 1 ELSE s

\* a faulty _stddev: the variance is divided by the length once more
VarTimesN2OverLen(costs) ==
  (Len(costs) * SumSquares(costs) - SumSeq(costs) * SumSeq(costs)) \div Len(costs)

\* n^2 times the population variance of the series
VarTimesN2(costs) == Len(costs) * SumSquares(costs) - SumSeq(costs) * SumSeq(costs)

(***************************************************************************)
(* CostForecaster.analyze_trend                                            *)
(***************************************************************************)
TrendOf(costs) ==
  IF Len(costs) = 0 \/ Len(costs) < MinPoints
  THEN [trend |-> "insufficient_data", average_daily |-> 0, growth_rate |-> 0]
  ELSE
    LET n == Len(costs)
        total == SumSeq(costs)
        mid_point == n \div 2
        first == SumSeq(SubSeq(costs, 1, mid_point))
        second == SumSeq(SubSeq(costs, mid_point + 1, n))
        \* growth_rate = GN / GD percent, when first_half_avg > 0; it is
        \* compared with 5 exactly, where the source compares a binary float
        \* that can lie just below a growth of exactly 5 percent
        GN == 100 * (second * mid_point - first * (n - mid_point))
        GD == first * (n - mid_point)
        grows == first > 0
        trend == IF ~grows \/ Abs(GN) < 5 * GD THEN "stable"
                 ELSE IF GN > 0 THEN "increasing" ELSE "decreasing"
    IN  [trend |-> trend,
         average_daily |-> RoundDiv(100 * total, n),
         growth_rate |-> IF grows THEN RoundDiv(100 * GN, GD) ELSE 0,
         volatility |-> IF total > 0 THEN RoundSqrt(VarTimesN2(costs), total * total, 4) ELSE 0,
         min_daily |-> 100 * SeqMin(costs),
         max_daily |-> 100 * SeqMax(costs),
         total_period |-> 100 * total]

(***************************************************************************)
(* CostForecaster.simple_forecast and budget_alert                         *)
(***************************************************************************)
InsufficientForecast ==
  [error |-> "Insufficient data for forecasting", min_days_required |-> MinPoints]

\* a faulty simple_forecast: the growth is applied in full, not by half
ForecastOfUndamped(costs, forecast_days) ==
  IF Len(costs) < MinPoints THEN InsufficientForecast
  ELSE
    LET trend == TrendOf(costs)
        factor == 10000 + trend.growth_rate
    IN  [forecast_days |-> forecast_days,
         projected_total |-> MulDivRound(factor * forecast_days, trend.average_daily, 10000),
         projected_daily_avg |-> MulDivRound(factor, trend.average_daily, 10000),
         monthly_run_rate |-> MulDivRound(factor * 30, trend.average_daily, 10000),
         confidence |-> IF trend.volatility < 1000 THEN "High"
                        ELSE IF trend.volatility < 2500 THEN "Medium" ELSE "Low",
         trend |-> trend.trend,
         growth_rate |-> trend.growth_rate,
         volatility |-> trend.volatility]

\* a faulty simple_forecast: the run rate is taken over forecast_days
ForecastOfHorizonRate(costs, forecast_days) ==
  IF Len(costs) < MinPoints THEN InsufficientForecast
  ELSE
    LET trend == TrendOf(costs)
        factor == 20000 + trend.growth_rate
    IN  [forecast_days |-> forecast_days,
         projected_total |-> MulDivRound(factor * forecast_days, trend.average_daily, 20000),
         projected_daily_avg |-> MulDivRound(factor, trend.average_daily, 20000),
         monthly_run_rate |-> MulDivRound(factor * forecast_days, trend.average_daily, 20000),
         confidence |-> IF trend.volatility < 1000 THEN "High"
                        ELSE IF trend.volatility < 2500 THEN "Medium" ELSE "Low",
         trend |-> trend.trend,
         growth_rate |-> trend.growth_rate,
         volatility |-> trend.volatility]

ForecastOf(costs, forecast_days) ==
  IF Len(costs) < MinPoints THEN InsufficientForecast
  ELSE
    LET trend == TrendOf(costs)
        \* projected_daily = avg_daily * (1 + growth_rate / 100 / 2)
        \*                 = avg_daily * (20000 + G) / 20000, G in hundredths
        factor == 20000 + trend.growth_rate
    IN  [forecast_days |-> forecast_days,
         projected_total |-> MulDivRound(factor * forecast_days, trend.average_daily, 20000),
         projected_daily_avg |-> MulDivRound(factor, trend.average_daily, 20000),
         monthly_run_rate |-> MulDivRound(factor * 30, trend.average_daily, 20000),
         confidence |-> IF trend.volatility < 1000 THEN "High"
                        ELSE IF trend.volatility < 2500 THEN "Medium" ELSE "Low",
         trend |-> trend.trend,
         growth_rate |-> trend.growth_rate,
         volatility |-> trend.volatility]

\* int(x / y) for x >= 0, y > 0
TruncDiv(x, y) == x \div y

\* a faulty budget_alert: a run rate equal to the budget already alerts
BudgetOfAtBudget(costs, monthly_budget, now) ==
  LET forecast == ForecastOf(costs, 30)
  IN  IF "error" \in DOMAIN forecast
      THEN [raised |-> FALSE, value |-> forecast]
      ELSE
        LET projected_monthly == forecast.monthly_run_rate
            overage == projected_monthly - monthly_budget
            buffer == monthly_budget - projected_monthly
            daily_avg == forecast.projected_daily_avg
            days_to_budget == IF daily_avg > 0 THEN TruncDiv(monthly_budget, daily_avg) ELSE 30
        IN  IF monthly_budget = 0
            THEN [raised |-> TRUE, value |-> "ZeroDivisionError"]
            ELSE IF projected_monthly >= monthly_budget
            THEN [raised |-> FALSE,
                  value |-> [alert |-> TRUE,
                             severity |-> IF 5 * overage > monthly_budget THEN "high" ELSE "medium",
                             monthly_budget |-> monthly_budget,
                             projected_spend |-> projected_monthly,
                             overage |-> overage,
                             overage_percent |-> MulDivRound(overage, 1000, monthly_budget),
                             days_until_exceeded |-> days_to_budget,
                             estimated_date |-> DayOf(now) + days_to_budget]]
            ELSE [raised |-> FALSE,
                  value |-> [alert |-> FALSE,
                             severity |-> "low",
                             monthly_budget |-> monthly_budget,
                             projected_spend |-> projected_monthly,
                             buffer |-> buffer,
                             buffer_percent |-> MulDivRound(buffer, 1000, monthly_budget),
                             status |-> "On track - within budget"]]

\* budget_alert for a budget of at least 0 cents; now is the clock second
BudgetOf(costs, monthly_budget, now) ==
  LET forecast == ForecastOf(costs, 30)
  IN  IF "error" \in DOMAIN forecast
      THEN [raised |-> FALSE, value |-> forecast]
      ELSE
        LET projected_monthly == forecast.monthly_run_rate
            overage == projected_monthly - monthly_budget
            buffer == monthly_budget - projected_monthly
            daily_avg == forecast.projected_daily_avg
            days_to_budget == IF daily_avg > 0 THEN TruncDiv(monthly_budget, daily_avg) ELSE 30
        IN  IF monthly_budget = 0
            THEN \* overage / monthly_budget, buffer / monthly_budget
                 [raised |-> TRUE, value |-> "ZeroDivisionError"]
            ELSE IF projected_monthly > monthly_budget
            THEN [raised |-> FALSE,
                  value |-> [alert |-> TRUE,
                             severity |-> IF 5 * overage > monthly_budget THEN "high" ELSE "medium",
                             monthly_budget |-> monthly_budget,
                             projected_spend |-> projected_monthly,
                             overage |-> overage,
                             overage_percent |-> MulDivRound(overage, 1000, monthly_budget),
                             days_until_exceeded |-> days_to_budget,
                             estimated_date |-> DayOf(now) + days_to_budget]]
            ELSE [raised |-> FALSE,
                  value |-> [alert |-> FALSE,
                             severity |-> "low",
                             monthly_budget |-> monthly_budget,
                             projected_spend |-> projected_monthly,
                             buffer |-> buffer,
                             buffer_percent |-> MulDivRound(buffer, 1000, monthly_budget),
                             status |-> "On track - within budget"]]

(***************************************************************************)
(* anomaly_detector.detect_anomalies                                       *)
(***************************************************************************)
\* a faulty _percentile: it interpolates in the series as given, unsorted
PercentileUnsorted(costs, quarters) ==
  LET k4 == (Len(costs) - 1) * quarters
      f == k4 \div 4
      c == IF f + 1 < Len(costs) - 1 THEN f + 1 ELSE Len(costs) - 1
  IN  IF f = c THEN 4 * costs[f + 1]
      ELSE costs[f + 1] * (4 * c - k4) + costs[c + 1] * (k4 - 4 * f)

\* 4 * _percentile(values, quarters / 4): linear interpolation between the
\* sorted values at floor(k) and floor(k) + 1, k = (len - 1) * quarters / 4
PercentileTimes4(costs, quarters) ==
  LET sorted_vals == SortSeq(costs, LAMBDA a, b : a < b)
      k4 == (Len(costs) - 1) * quarters
      f == k4 \div 4
      c == IF f + 1 < Len(costs) - 1 THEN f + 1 ELSE Len(costs) - 1
  IN  IF f = c THEN 4 * sorted_vals[f + 1]
      ELSE sorted_vals[f + 1] * (4 * c - k4) + sorted_vals[c + 1] * (k4 - 4 * f)

\* a faulty comparison: z_score > num / den, for num > 0
ZAbove(a, v, num, den) ==
  v > 0 /\ a >= 0 /\ a * a * den * den > num * num * v

\* a faulty comparison: abs(z_score) >= num / den, which also counts a drop
ZMagnitudeAtLeast(a, v, num, den) ==
  IF v = 0 THEN 0 >= num ELSE a * a * den * den >= num * num * v

\* z_score >= num / den, where z_score = a / sqrt(v) for v > 0 and 0.0 for
\* v = 0 (a = n * (cost - mean), v = n^2 * variance).  The comparison is
\* exact; the source compares binary floats, which can fall short of a
\* threshold that the exact quotient meets with equality.
ZAtLeast(a, v, num, den) ==
  IF v = 0 THEN 0 >= num
  ELSE IF num > 0 THEN a >= 0 /\ a * a * den * den >= num * num * v
  ELSE a >= 0 \/ a * a * den * den <= num * num * v

\* round(z_score, 2), in hundredths
ZScoreRounded(a, v) ==
  IF v = 0 THEN 0
  ELSE IF a >= 0 THEN RoundSqrt(a * a, v, 2) ELSE -RoundSqrt(a * a, v, 2)

InsufficientAnomalies ==
  [anomalies |-> << >>,
   summary |-> [status |-> "insufficient_data",
                message |-> "Need at least 7 days to detect anomalies"]]

\* the scan of detect_anomalies over a series that passed the length test;
\* z_threshold = <<num, den>>, the date of a point is its position
AnomalyScan(costs, z_threshold) ==
    LET n == Len(costs)
        total == SumSeq(costs)
        v == VarTimesN2(costs)
        q1x4 == PercentileTimes4(costs, 1)
        q3x4 == PercentileTimes4(costs, 3)
        iqr4 == q3x4 - q1x4
        a(i) == n * costs[i] - total
        is_z(i) == ZAtLeast(a(i), v, z_threshold[1], z_threshold[2])
        \* cost > q3 + 1.5 * iqr
        is_iqr(i) == 8 * costs[i] > 2 * q3x4 + 3 * iqr4
        \* z_score >= 3.5 or cost > q3 + 3 * iqr
        is_high(i) == ZAtLeast(a(i), v, 7, 2) \/ 4 * costs[i] > q3x4 + 3 * iqr4
        flagged == SelectSeq([i \in 1..n |-> i], LAMBDA i : is_z(i) \/ is_iqr(i))
        anomalies == [k \in 1..Len(flagged) |->
                        [date |-> flagged[k],
                         cost |-> 100 * costs[flagged[k]],
                         z_score |-> ZScoreRounded(a(flagged[k]), v),
                         severity |-> IF is_high(flagged[k]) THEN "high" ELSE "medium",
                         reason |-> IF is_z(flagged[k]) THEN "z-score" ELSE "iqr"]]
    IN  [anomalies |-> anomalies,
         summary |-> [status |-> IF Len(flagged) > 0 THEN "ok" ELSE "none",
                      average_daily |-> RoundDiv(100 * total, n),
                      stddev |-> RoundSqrt(v, n * n, 2),
                      q1 |-> 25 * q1x4,
                      q3 |-> 25 * q3x4]]

\* a faulty detect_anomalies: a series of six points passes the length test
AnomaliesOfSixPoints(costs, z_threshold) ==
  IF Len(costs) = 0 \/ Len(costs) < MinPoints - 1 THEN InsufficientAnomalies
  ELSE AnomalyScan(costs, z_threshold)

\* detect_anomalies(daily_costs, z_threshold)
AnomaliesOf(costs, z_threshold) ==
  IF Len(costs) = 0 \/ Len(costs) < MinPoints THEN InsufficientAnomalies
  ELSE AnomalyScan(costs, z_threshold)

(***************************************************************************)
(* Calls on a cost series.  The forecaster and the detector read the       *)
(* series and keep no state of their own; ret is what the call returned.   *)
(***************************************************************************)
\* a bound of the model: the longest series drawn
MaxSeriesLen == 8
Amounts == {0, 100}
ForecastDays == {7, 30}
\* in cents: none, and the two that a run rate of 3000.00 exceeds by exactly
\* 20 percent and meets exactly
MonthlyBudgets == {0, 250000, 300000}
ZThresholds == {<<5, 2>>, <<3, 1>>}

RECURSIVE SeriesOfLen(_)
SeriesOfLen(n) ==
  IF n = 0 THEN {<< >>}
  ELSE {Append(s, x) : s \in SeriesOfLen(n - 1), x \in Amounts}

Series == UNION {SeriesOfLen(n) : n \in 0..MaxSeriesLen}

\* one spike in ten days; and a spike whose z-score is exactly 3.5 (mean 13,
\* stddev 16) and the same series with the spike one dollar lower, both
\* below Q3 + 3 * IQR = 80
SpikeSeries == <<10, 10, 10, 10, 10, 10, 10, 100, 10, 10>>
BoundarySeries(spike) ==
  <<0, 0, 0, 0, 0, 0, 12, 12, 12, 12, 12, 12, 20, 20, 20, 20, spike>>
\* split-half growth of 50/1001 = 4.995005 percent, up and down, which
\* rounds to 5.0; and a growth of exactly 5 percent
NearFiveUp == <<143, 143, 143, 143, 143, 143, 143, 150, 150, 150, 150, 150, 150, 151>>
NearFiveDown == <<143, 143, 143, 143, 143, 143, 143, 136, 136, 136, 136, 136, 136, 135>>
ExactlyFive == <<20, 20, 20, 20, 21, 21, 21, 21>>
ExampleSeries ==
  {SpikeSeries, BoundarySeries(69), BoundarySeries(68), NearFiveUp, NearFiveDown, ExactlyFive}

analyze_trend ==
  /\ ret' = Return("analyze_trend", << >>, TrendOf(daily_costs))
  /\ UNCHANGED <<environ, client, writer, workers, _cache, configured_accounts, daily_costs, recs, snaps, clock, calls>>

simple_forecast(forecast_days) ==
  /\ ret' = Return("simple_forecast", <<forecast_days>>,
                   ForecastOf(daily_costs, forecast_days))
  /\ UNCHANGED <<environ, client, writer, workers, _cache, configured_accounts, daily_costs, recs, snaps, clock, calls>>

budget_alert(monthly_budget) ==
  /\ ret' = [op |-> "budget_alert", args |-> <<monthly_budget>>]
              @@ BudgetOf(daily_costs, monthly_budget, clock)
  /\ UNCHANGED <<environ, client, writer, workers, _cache, configured_accounts, daily_costs, recs, snaps, clock, calls>>

detect_anomalies(z_threshold) ==
  /\ ret' = Return("detect_anomalies", <<z_threshold>>,
                   AnomaliesOf(daily_costs, z_threshold))
  /\ UNCHANGED <<environ, client, writer, workers, _cache, configured_accounts, daily_costs, recs, snaps, clock, calls>>

InitStats ==
  /\ recs = << >>
  /\ snaps = << >>
  /\ clock = 0
  /\ calls = 0
  /\ daily_costs \in Series \cup ExampleSeries
  /\ configured_accounts = << >>
  /\ Idle
  /\ ret = Return("__init__", << >>, NULL)

NextStats ==
  \/ analyze_trend
  \/ \E forecast_days \in ForecastDays : simple_forecast(forecast_days)
  \/ \E monthly_budget \in MonthlyBudgets : budget_alert(monthly_budget)
  \/ \E z_threshold \in ZThresholds : detect_anomalies(z_threshold)

SpecStats == InitStats /\ [][NextStats]_vars

(***************************************************************************)
(* Claims about short series                                               *)
(***************************************************************************)
\* C10: for a series of fewer than 7 points, the empty one included, no call
\* raises; analyze_trend returns trend 'insufficient_data', simple_forecast
\* and budget_alert return the 'Insufficient data' error result with
\* min_days_required = 7, and detect_anomalies returns no anomalies with
\* summary.status 'insufficient_data'.
C10_InsufficientData ==
  Len(daily_costs) < 7 =>
    /\ ret.op \in {"analyze_trend", "simple_forecast", "budget_alert", "detect_anomalies"}
         => ~ret.raised
    /\ ret.op = "analyze_trend" => ret.value.trend = "insufficient_data"
    /\ ret.op \in {"simple_forecast", "budget_alert"} =>
         /\ DOMAIN ret.value = {"error", "min_days_required"}
         /\ ret.value.error = "Insufficient data for forecasting"
         /\ ret.value.min_days_required = 7
    /\ ret.op = "detect_anomalies" =>
         /\ ret.value.anomalies = << >>
         /\ ret.value.summary.status = "insufficient_data"

\* a six-point series checked against a budget of 0, the budget that makes
\* budget_alert divide by zero once the series is long enough
C10_Witness ==
  /\ Len(daily_costs) = 6
  /\ ret.op = "budget_alert"
  /\ ret.args = <<0>>
  /\ ~ret.raised
  /\ "error" \in DOMAIN ret.value

(***************************************************************************)
(* Claims about detect_anomalies                                           *)
(***************************************************************************)
\* n * (amount of point i - mean)
Deviation(costs, i) == Len(costs) * costs[i] - SumSeq(costs)
\* n^2 * the sum of the squared deviations from the mean
SumSquaredDeviations(costs) ==
  SumSeq([j \in 1..Len(costs) |-> Deviation(costs, j) * Deviation(costs, j)])

\* z >= num / den for point i, with z = (amount - mean) / population stddev
\* and z = 0 when the stddev is 0; num > 0
ZReaches(costs, i, num, den) ==
  /\ SumSquaredDeviations(costs) > 0
  /\ Deviation(costs, i) >= 0
  /\ Len(costs) * Deviation(costs, i) * Deviation(costs, i) * den * den
       >= num * num * SumSquaredDeviations(costs)

\* amount of point i > Q3 + (halves / 2) * IQR
AboveFence(costs, i, halves) ==
  8 * costs[i] > 2 * PercentileTimes4(costs, 3)
                 + halves * (PercentileTimes4(costs, 3) - PercentileTimes4(costs, 1))

ShouldFlag(costs, i, z_threshold) ==
  ZReaches(costs, i, z_threshold[1], z_threshold[2]) \/ AboveFence(costs, i, 3)

DetectReturned == ret.op = "detect_anomalies" /\ Len(daily_costs) >= 7

\* C11: for a series of at least 7 points the anomalies returned by
\* detect_anomalies are exactly the points with z >= z_threshold or amount >
\* Q3 + 1.5 * IQR, in the order of the series, and the reason of a record is
\* 'z-score' exactly when its z >= z_threshold and 'iqr' otherwise.
C11_FlaggedPoints ==
  DetectReturned =>
    LET found == ret.value.anomalies
        z_threshold == ret.args[1]
    IN  /\ {found[k].date : k \in 1..Len(found)}
             = {i \in 1..Len(daily_costs) : ShouldFlag(daily_costs, i, z_threshold)}
        /\ \A k \in 1..Len(found) : \A l \in 1..Len(found) :
             k < l => found[k].date < found[l].date
        /\ \A k \in 1..Len(found) :
             /\ found[k].cost = 100 * daily_costs[found[k].date]
             /\ found[k].reason =
                  IF ZReaches(daily_costs, found[k].date, z_threshold[1], z_threshold[2])
                  THEN "z-score" ELSE "iqr"

\* two of eight points are flagged by the fence only, the others are not
C11_Witness ==
  /\ DetectReturned
  /\ Len(daily_costs) = 8
  /\ Len(ret.value.anomalies) = 2
  /\ \A k \in 1..2 : ret.value.anomalies[k].reason = "iqr"

\* C12: every anomaly record has severity 'high' if and only if its z >= 3.5
\* or its amount > Q3 + 3 * IQR, and 'medium' otherwise; a flagged point with
\* z exactly 3.5 is 'high'.
C12_Severity ==
  DetectReturned =>
    \A k \in 1..Len(ret.value.anomalies) :
      LET i == ret.value.anomalies[k].date
      IN  ret.value.anomalies[k].severity =
            IF ZReaches(daily_costs, i, 7, 2) \/ AboveFence(daily_costs, i, 6)
            THEN "high" ELSE "medium"

\* the spike of z exactly 3.5, below Q3 + 3 * IQR, is reported as 'high'
C12_Witness ==
  /\ DetectReturned
  /\ daily_costs = BoundarySeries(69)
  /\ 4 * Len(daily_costs) * Deviation(daily_costs, 17) * Deviation(daily_costs, 17)
       = 49 * SumSquaredDeviations(daily_costs)
  /\ ~AboveFence(daily_costs, 17, 6)
  /\ Len(ret.value.anomalies) = 1
  /\ ret.value.anomalies[1].date = 17
  /\ ret.value.anomalies[1].z_score = 350
  /\ ret.value.anomalies[1].severity = "high"

\* one dollar below it the spike is reported as 'medium'
C12_MediumReached ==
  /\ DetectReturned
  /\ daily_costs = BoundarySeries(68)
  /\ Len(ret.value.anomalies) = 1
  /\ ret.value.anomalies[1].severity = "medium"

SpikeReturned ==
  /\ DetectReturned
  /\ daily_costs = SpikeSeries
  /\ ret.args = << <<5, 2>> >>

\* C13: for the ten-day series [10,10,10,10,10,10,10,100,10,10] and the
\* default threshold, detect_anomalies flags day 8 only, with reason
\* 'z-score' and severity 'medium'.
C13_SpikeIsMedium ==
  SpikeReturned =>
    /\ Len(ret.value.anomalies) = 1
    /\ ret.value.anomalies[1].date = 8
    /\ ret.value.anomalies[1].reason = "z-score"
    /\ ret.value.anomalies[1].severity = "medium"

\* C13 as the source has it: day 8 only, reason 'z-score', severity 'high',
\* because Q3 = 10 and IQR = 0 put the amount 100 above Q3 + 3 * IQR = 10.
C13_SpikeIsHigh ==
  SpikeReturned =>
    /\ Len(ret.value.anomalies) = 1
    /\ ret.value.anomalies[1].date = 8
    /\ ret.value.anomalies[1].reason = "z-score"
    /\ ret.value.anomalies[1].severity = "high"

C13_Witness ==
  /\ SpikeReturned
  /\ ret.value.summary.q1 = 1000
  /\ ret.value.summary.q3 = 1000
  /\ ret.value.summary.average_daily = 1900
  /\ ret.value.summary.stddev = 2700
  /\ ret.value.anomalies[1].z_score = 300
  /\ ~ZReaches(daily_costs, 8, 7, 2)
  /\ AboveFence(daily_costs, 8, 6)

(***************************************************************************)
(* Claims about analyze_trend, simple_forecast and budget_alert            *)
(***************************************************************************)
TrendReturned == ret.op = "analyze_trend" /\ Len(daily_costs) >= 7

\* C14: for a series of at least 7 points the trend label and the growth_rate
\* returned with it agree with the threshold rule: 'stable' iff
\* |growth_rate| < 5, 'increasing' iff growth_rate >= 5, 'decreasing' iff
\* growth_rate <= -5, also when the returned growth_rate is exactly 5.0 or -5.0.
C14_TrendMatchesGrowth ==
  TrendReturned =>
    /\ ret.value.trend = "stable" <=> Abs(ret.value.growth_rate) < 500
    /\ ret.value.trend = "increasing" <=> ret.value.growth_rate >= 500
    /\ ret.value.trend = "decreasing" <=> ret.value.growth_rate <= -500

\* the label follows the growth before it is rounded: it never disagrees with
\* the returned growth_rate by more than the rounding
TrendMatchesUnroundedGrowth ==
  TrendReturned =>
    /\ ret.value.trend = "stable" => Abs(ret.value.growth_rate) <= 500
    /\ ret.value.trend = "increasing" => ret.value.growth_rate >= 500
    /\ ret.value.trend = "decreasing" => ret.value.growth_rate <= -500

BudgetReturned ==
  /\ ret.op = "budget_alert"
  /\ Len(daily_costs) >= 7
  /\ ret.args[1] > 0

\* C15: for a series of at least 7 points and a positive monthly budget,
\* budget_alert returns alert = true if and only if the forecast's
\* monthly_run_rate is strictly greater than the budget; with alert true the
\* severity is 'high' iff the overage is more than 20% of the budget and
\* 'medium' otherwise, with alert false it is 'low'.
C15_AlertRule ==
  BudgetReturned =>
    LET monthly_budget == ret.args[1]
        run_rate == ForecastOf(daily_costs, 30).monthly_run_rate
    IN  /\ ~ret.raised
        /\ ret.value.alert <=> run_rate > monthly_budget
        /\ ret.value.alert =>
             ret.value.severity =
               IF 100 * (run_rate - monthly_budget) > 20 * monthly_budget
               THEN "high" ELSE "medium"
        /\ ~ret.value.alert => ret.value.severity = "low"

\* seven days of 100 run at 3000.00 a month: a budget of 3000.00 is met
\* exactly and does not alert
C15_Witness ==
  /\ BudgetReturned
  /\ daily_costs = <<100, 100, 100, 100, 100, 100, 100>>
  /\ ret.args = <<300000>>
  /\ ret.value.projected_spend = 300000
  /\ ret.value.alert = FALSE
  /\ ret.value.severity = "low"

\* the same run rate is exactly 20% over a budget of 2500.00: 'medium'
C15_MediumAtTwentyPercent ==
  /\ BudgetReturned
  /\ ret.args = <<250000>>
  /\ ret.value.alert
  /\ ret.value.overage_percent = 200
  /\ ret.value.severity = "medium"

C15_HighReached ==
  /\ BudgetReturned
  /\ ret.value.alert
  /\ ret.value.severity = "high"

ForecastReturned == ret.op = "simple_forecast" /\ Len(daily_costs) >= 7

\* q is days * average_daily * (1 + growth_rate / 2 / 100) to the nearest
\* cent, for the average_daily (cents) and growth_rate (hundredths of a
\* percent) that analyze_trend returns
IsProjection(q, days, costs) ==
  LET x == TrendOf(costs).average_daily * (20000 + TrendOf(costs).growth_rate)
  IN  IsNearest(q - days * (x \div 20000), days * (x % 20000), 20000)

\* C16: for a series of at least 7 points simple_forecast returns the same
\* monthly_run_rate, 30 times the projected daily average, for every value of
\* forecast_days, while projected_total is the projected daily average times
\* forecast_days.
C16_RunRateIgnoresHorizon ==
  /\ [](ForecastReturned =>
          /\ IsProjection(ret.value.monthly_run_rate, 30, daily_costs)
          /\ IsProjection(ret.value.projected_total, ret.args[1], daily_costs)
          /\ IsProjection(ret.value.projected_daily_avg, 1, daily_costs))
  /\ [][(ForecastReturned /\ ForecastReturned')
          => ret'.value.monthly_run_rate = ret.value.monthly_run_rate]_vars

\* a 7-day forecast whose run rate, 4507.03, is the 30-day one, while its
\* total, 1051.64, is 7 days of the projected daily average
C16_Witness ==
  /\ ForecastReturned
  /\ daily_costs = NearFiveUp
  /\ ret.args = <<7>>
  /\ ret.value.projected_daily_avg = 15023
  /\ ret.value.monthly_run_rate = 450703
  /\ ret.value.projected_total = 105164

(***************************************************************************)
(* multi_account_analyzer.py.  A string is a sequence of characters;       *)
(* amounts of the cost service are in tenths of a cent, amounts rounded    *)
(* to two decimals are in cents.                                           *)
(***************************************************************************)
\* str.strip(): leading and trailing blanks removed
RECURSIVE StripLeft(_)
StripLeft(s) == IF s # << >> /\ Head(s) = " " THEN StripLeft(Tail(s)) ELSE s

RECURSIVE StripRight(_)
StripRight(s) ==
  IF s # << >> /\ s[Len(s)] = " " THEN StripRight(SubSeq(s, 1, Len(s) - 1)) ELSE s

Strip(s) == StripRight(StripLeft(s))

\* the position of the first ch in s, 0 when there is none
RECURSIVE Find(_, _, _)
Find(s, ch, from) ==
  IF from > Len(s) THEN 0
  ELSE IF s[from] = ch THEN from ELSE Find(s, ch, from + 1)

\* str.split(ch): the pieces between the occurrences of ch, at least one
RECURSIVE Split(_, _)
Split(s, ch) ==
  LET i == Find(s, ch, 1)
  IN  IF i = 0 THEN <<s>>
      ELSE <<SubSeq(s, 1, i - 1)>> \o Split(SubSeq(s, i + 1, Len(s)), ch)

DefaultName == <<"d", "e", "f", "a", "u", "l", "t">>

\* one entry of the configuration: "name:profile", or a name that is its own profile
ParseAccount(account_str) ==
  LET str == Strip(account_str)
      i == Find(str, ":", 1)
  IN  IF i > 0 THEN <<Strip(SubSeq(str, 1, i - 1)), Strip(SubSeq(str, i + 1, Len(str)))>>
      ELSE <<str, str>>

\* MultiAccountAnalyzer._parse_accounts
ParseAccounts(config) ==
  IF config = << >> \/ Strip(config) = << >> THEN <<<<DefaultName, DefaultName>>>>
  ELSE LET pieces == Split(config, ",")
       IN  [k \in 1..Len(pieces) |-> ParseAccount(pieces[k])]

\* A dict is a sequence of <<key, value>> pairs in insertion order, with
\* distinct keys.
DictKeys(d) == [k \in 1..Len(d) |-> d[k][1]]
HasKey(d, key) == \E k \in 1..Len(d) : d[k][1] = key
DictGet(d, key) == d[CHOOSE k \in 1..Len(d) : d[k][1] = key][2]
\* d[key] = value: an existing key keeps its place
DictPut(d, key, value) ==
  IF HasKey(d, key)
  THEN [k \in 1..Len(d) |-> IF d[k][1] = key THEN <<key, value>> ELSE d[k]]
  ELSE Append(d, <<key, value>>)

\* sorted(items, key=lambda x: x[1], reverse=True): descending by value,
\* equal values stay in their order
RECURSIVE InsertDesc(_, _)
InsertDesc(sorted, item) ==
  IF sorted = << >> THEN <<item>>
  ELSE IF Head(sorted)[2] >= item[2] THEN <<Head(sorted)>> \o InsertDesc(Tail(sorted), item)
  ELSE <<item>> \o sorted

RECURSIVE SortedDesc(_)
SortedDesc(items) ==
  IF items = << >> THEN << >>
  ELSE InsertDesc(SortedDesc(SubSeq(items, 1, Len(items) - 1)), items[Len(items)])

\* what one account's cost service does: no client can be made, the query
\* raises, or it answers with days of <<service, amount>> groups
NoClient == [kind |-> "no_client"]
QueryRaises == [kind |-> "raises", message |-> "AccessDenied"]
Response(days) == [kind |-> "response", days |-> days]

RECURSIVE Flatten(_)
Flatten(days) == IF days = << >> THEN << >> ELSE Head(days) \o Flatten(Tail(days))

\* costs_by_service[service_name] = costs_by_service.get(service_name, 0) + cost
RECURSIVE CostsByService(_)
CostsByService(groups) ==
  IF groups = << >> THEN << >>
  ELSE LET before == CostsByService(SubSeq(groups, 1, Len(groups) - 1))
           group == groups[Len(groups)]
       IN  DictPut(before, group[1],
                   (IF HasKey(before, group[1]) THEN DictGet(before, group[1]) ELSE 0)
                     + group[2])

DayTotal(day) == SumSeq([g \in 1..Len(day) |-> day[g][2]])
\* total_cost before rounding
ResponseTotal(days) == SumSeq([d \in 1..Len(days) |-> DayTotal(days[d])])

\* the entry get_multi_account_costs stores for an account
AccountEntry(outcome) ==
  IF outcome.kind = "no_client" THEN [error |-> "Failed to create client"]
  ELSE IF outcome.kind = "raises" THEN [error |-> outcome.message, total_cost |-> 0]
  ELSE
    LET ranked == SortedDesc(CostsByService(Flatten(outcome.days)))
        sorted_services == [k \in 1..Len(ranked) |-> <<ranked[k][1], RoundDiv(ranked[k][2], 10)>>]
    IN  [total_cost |-> RoundDiv(ResponseTotal(outcome.days), 10),
         by_service |-> sorted_services,
         daily_costs |-> [d \in 1..Len(outcome.days) |->
                            [date |-> d, cost |-> RoundDiv(DayTotal(outcome.days[d]), 10)]],
         top_service |-> IF sorted_services # << >> THEN sorted_services[1][1] ELSE "N/A",
         service_count |-> Len(sorted_services)]

\* what an account adds to results['total_all_accounts']
AddedToTotal(outcome) ==
  IF outcome.kind = "response" THEN ResponseTotal(outcome.days) ELSE 0

\* results['accounts'] after the first k configured accounts
RECURSIVE AccountsAfter(_, _, _)
AccountsAfter(configured, outcomes, k) ==
  IF k = 0 THEN << >>
  ELSE DictPut(AccountsAfter(configured, outcomes, k - 1),
               configured[k][1], AccountEntry(outcomes[k]))

\* get_multi_account_costs(days) of an analyzer with the configured
\* accounts, when the k-th account's cost service does outcomes[k]
MultiAccountCosts(configured, outcomes, days, now) ==
  [accounts |-> AccountsAfter(configured, outcomes, Len(configured)),
   total_all_accounts |->
     RoundDiv(SumSeq([k \in 1..Len(configured) |-> AddedToTotal(outcomes[k])]), 10),
   period_days |-> days,
   analysis_date |-> now,
   start_date |-> DayOf(now) - days,
   end_date |-> DayOf(now)]

\* data.get('total_cost', 0)
TotalCostOf(data) == IF "total_cost" \in DOMAIN data THEN data.total_cost ELSE 0

\* the cost_imbalance recommendations: one or none
Imbalance(accounts) ==
  LET costs == SortedDesc([k \in 1..Len(accounts) |-> <<accounts[k][1], TotalCostOf(accounts[k][2])>>])
      highest == costs[1]
      lowest == costs[Len(costs)]
  IN  IF Len(costs) >= 2 /\ highest[2] > 0 /\ lowest[2] > 0 /\ highest[2] > 3 * lowest[2]
      THEN <<[type |-> "cost_imbalance",
              severity |-> "medium",
              \* '{highest[0]} costs {ratio:.1f}x more than {lowest[0]}'
              title |-> <<highest[1], RoundDiv(10 * highest[2], lowest[2]), lowest[1]>>,
              accounts_affected |-> <<highest[1], lowest[1]>>]>>
      ELSE << >>

\* service_presence[service].append(account_name) for the services of one account
RECURSIVE PresenceWith(_, _, _)
PresenceWith(presence, services, account_name) ==
  IF services = << >> THEN presence
  ELSE PresenceWith(
         DictPut(presence, Head(services),
                 Append(IF HasKey(presence, Head(services))
                        THEN DictGet(presence, Head(services)) ELSE << >>,
                        account_name)),
         Tail(services), account_name)

\* service_presence after the first k accounts; an entry without by_service is skipped
RECURSIVE ServicePresence(_, _)
ServicePresence(accounts, k) ==
  IF k = 0 THEN << >>
  ELSE IF "by_service" \notin DOMAIN accounts[k][2] THEN ServicePresence(accounts, k - 1)
  ELSE PresenceWith(ServicePresence(accounts, k - 1),
                    DictKeys(accounts[k][2].by_service), accounts[k][1])

\* the shared_service_opportunity recommendations
SharedServices(accounts) ==
  LET presence == ServicePresence(accounts, Len(accounts))
      in_all == SelectSeq(presence, LAMBDA e : Len(e[2]) = Len(accounts) /\ Len(accounts) > 1)
  IN  [k \in 1..Len(in_all) |->
         [type |-> "shared_service_opportunity",
          severity |-> "low",
          service |-> in_all[k][1],
          accounts_affected |-> in_all[k][2]]]

\* generate_cross_account_recommendations(multi_account_data)
CrossAccountRecommendations(multi_account_data) ==
  Imbalance(multi_account_data.accounts) \o SharedServices(multi_account_data.accounts)

(***************************************************************************)
(* Calls on a MultiAccountAnalyzer                                         *)
(***************************************************************************)
\* a bound of the model: the longest configuration string drawn
MaxConfigLen == 3
ConfigChars == {"a", "b", ",", ":", " "}

RECURSIVE StringsOfLen(_)
StringsOfLen(n) ==
  IF n = 0 THEN {<< >>}
  ELSE {Append(s, ch) : s \in StringsOfLen(n - 1), ch \in ConfigChars}

\* "a,b,c": three accounts with distinct names
ThreeAccounts == <<"a", ",", "b", ",", "c">>
Configs == UNION {StringsOfLen(n) : n \in 0..MaxConfigLen} \cup {ThreeAccounts}

\* one day of EC2 for 300.00; two days of S3 and EC2 for 90.004 in all; one
\* day of EC2 for 100.00; a day without groups
Outcomes ==
  {NoClient, QueryRaises,
   Response(<< << <<"EC2", 300000>> >> >>),
   Response(<< << <<"S3", 60002>>, <<"EC2", 30000>> >>, << <<"S3", 2>> >> >>),
   Response(<< << <<"EC2", 100000>> >> >>),
   Response(<< << >> >>)}

PeriodDays == 7

\* the callers construct an analyzer and fetch once with it
get_multi_account_costs(outcomes) ==
  /\ configured_accounts # << >>
  /\ ret.op = "__init__"
  /\ ret' = Return("get_multi_account_costs", <<outcomes>>,
                   MultiAccountCosts(configured_accounts, outcomes, PeriodDays, clock))
  /\ UNCHANGED <<environ, client, writer, workers, _cache, configured_accounts, daily_costs, recs, snaps, clock, calls>>

\* called, as the callers do, on what get_multi_account_costs returned
generate_cross_account_recommendations ==
  /\ ret.op = "get_multi_account_costs"
  /\ ret' = Return("generate_cross_account_recommendations", <<ret.value>>,
                   CrossAccountRecommendations(ret.value))
  /\ UNCHANGED <<environ, client, writer, workers, _cache, configured_accounts, daily_costs, recs, snaps, clock, calls>>

\* MultiAccountAnalyzer(accounts_config)
InitAccounts ==
  /\ recs = << >>
  /\ snaps = << >>
  /\ clock = 0
  /\ calls = 0
  /\ daily_costs = << >>
  /\ \E config \in Configs : configured_accounts = ParseAccounts(config)
  /\ Idle
  /\ ret = Return("__init__", << >>, NULL)

NextAccounts ==
  \/ \E outcomes \in [1..Len(configured_accounts) -> Outcomes] :
       get_multi_account_costs(outcomes)
  \/ generate_cross_account_recommendations

SpecAccounts == InitAccounts /\ [][NextAccounts]_vars

(***************************************************************************)
(* Claims about the MultiAccountAnalyzer                                   *)
(***************************************************************************)
RecommendationsReturned == ret.op = "generate_cross_account_recommendations"

IsErrorEntry(data) == "error" \in DOMAIN data
\* the positions of the sources that reported no error
Healthy(sources) == {k \in 1..Len(sources) : ~IsErrorEntry(sources[k][2])}
\* those among the positions in K whose total is positive
PositiveIn(sources, K) == {k \in K : TotalCostOf(sources[k][2]) > 0}
IsMaxIn(sources, k, K) ==
  \A j \in K : TotalCostOf(sources[j][2]) <= TotalCostOf(sources[k][2])
IsMinIn(sources, k, K) ==
  \A j \in K : TotalCostOf(sources[j][2]) >= TotalCostOf(sources[k][2])
\* max(total) / min(total) > 3 over the positions in K
RatioAboveThree(sources, K) ==
  \E hi \in K, lo \in K :
    /\ IsMaxIn(sources, hi, K)
    /\ IsMinIn(sources, lo, K)
    /\ TotalCostOf(sources[hi][2]) > 3 * TotalCostOf(sources[lo][2])

ImbalancesIn(recommendations) ==
  SelectSeq(recommendations, LAMBDA r : r.type = "cost_imbalance")
SharedIn(recommendations) ==
  {recommendations[k].service :
     k \in {j \in 1..Len(recommendations) :
              recommendations[j].type = "shared_service_opportunity"}}

\* the cost_imbalance insight is there if and only if the ratio over the
\* positions in K is above 3, and it names a highest and a lowest of them
ImbalanceOver(sources, K, recommendations) ==
  LET found == ImbalancesIn(recommendations)
  IN  /\ Len(found) = IF RatioAboveThree(sources, K) THEN 1 ELSE 0
      /\ \A i \in 1..Len(found) :
           \E hi \in K, lo \in K :
             /\ IsMaxIn(sources, hi, K) /\ sources[hi][1] = found[i].accounts_affected[1]
             /\ IsMinIn(sources, lo, K) /\ sources[lo][1] = found[i].accounts_affected[2]

\* C17: for two or more sources none of which reports an error, a
\* cost_imbalance insight is emitted if and only if max(total) / min(total) > 3
\* over the sources with positive totals, and it names the highest and the
\* lowest of those; totals 300 and 90 emit it, a ratio of exactly 3 emits none.
C17_ImbalanceRule ==
  RecommendationsReturned =>
    LET sources == ret.args[1].accounts
    IN  (Len(sources) >= 2 /\ Healthy(sources) = 1..Len(sources)) =>
          ImbalanceOver(sources, PositiveIn(sources, 1..Len(sources)), ret.value)

\* what the source does for error-free sources: the ratio is taken over all
\* of them, and a source with a total of 0 suppresses the insight
ImbalanceOverAllSources ==
  RecommendationsReturned =>
    LET sources == ret.args[1].accounts
        found == ImbalancesIn(ret.value)
    IN  (Len(sources) >= 2 /\ Healthy(sources) = 1..Len(sources)) =>
          IF PositiveIn(sources, 1..Len(sources)) = 1..Len(sources)
          THEN ImbalanceOver(sources, 1..Len(sources), ret.value)
          ELSE found = << >>

\* totals 300 and 90: emitted, naming a highest and b lowest
ImbalanceExampleReached ==
  /\ RecommendationsReturned
  /\ Len(ret.args[1].accounts) = 2
  /\ TotalCostOf(ret.args[1].accounts[1][2]) = 30000
  /\ TotalCostOf(ret.args[1].accounts[2][2]) = 9000
  /\ ret.args[1].total_all_accounts = 39000
  /\ Len(ImbalancesIn(ret.value)) = 1
  /\ ret.value[1].accounts_affected = <<ret.args[1].accounts[1][1], ret.args[1].accounts[2][1]>>
  /\ ret.value[1].title[2] = 33

\* totals 300 and 100: none
RatioThreeReached ==
  /\ RecommendationsReturned
  /\ Len(ret.args[1].accounts) = 2
  /\ TotalCostOf(ret.args[1].accounts[1][2]) = 30000
  /\ TotalCostOf(ret.args[1].accounts[2][2]) = 10000
  /\ ImbalancesIn(ret.value) = << >>

CostsReturned == ret.op = "get_multi_account_costs"

\* the data without the sources that reported an error
WithoutErrors(multi_account_data) ==
  [multi_account_data EXCEPT
     !.accounts = SelectSeq(multi_account_data.accounts, LAMBDA e : ~IsErrorEntry(e[2]))]

\* C18: a source that reported an error stays in the accounts map tagged with
\* its error and is left out of the insight computations: adding an error
\* source changes neither whether the cost_imbalance insight is emitted nor
\* which shared-contributor insights are emitted.
C18_ErrorSourcesExcluded ==
  /\ CostsReturned =>
       \A k \in 1..Len(configured_accounts) :
         (/\ ret.args[1][k].kind # "response"
          /\ \A j \in (k + 1)..Len(configured_accounts) :
               configured_accounts[j][1] # configured_accounts[k][1])
         => /\ HasKey(ret.value.accounts, configured_accounts[k][1])
            /\ IsErrorEntry(DictGet(ret.value.accounts, configured_accounts[k][1]))
  /\ RecommendationsReturned =>
       LET without == CrossAccountRecommendations(WithoutErrors(ret.args[1]))
       IN  /\ Len(ImbalancesIn(ret.value)) = Len(ImbalancesIn(without))
           /\ SharedIn(ret.value) = SharedIn(without)

\* the part of C18 the source keeps: the error source stays in the map,
\* tagged with its error
ErrorSourcesRetained ==
  CostsReturned =>
    \A k \in 1..Len(configured_accounts) :
      (/\ ret.args[1][k].kind # "response"
       /\ \A j \in (k + 1)..Len(configured_accounts) :
            configured_accounts[j][1] # configured_accounts[k][1])
      => /\ HasKey(ret.value.accounts, configured_accounts[k][1])
         /\ IsErrorEntry(DictGet(ret.value.accounts, configured_accounts[k][1]))

\* C19: for every configuration string, one that lists an account name more
\* than once included, and every pattern of fetch failures, the
\* total_all_accounts returned by get_multi_account_costs is the sum of
\* total_cost over the entries of the returned accounts map, an error entry
\* counting 0.
C19_TotalIsSumOfEntries ==
  CostsReturned =>
    ret.value.total_all_accounts =
      SumSeq([k \in 1..Len(ret.value.accounts) |-> TotalCostOf(ret.value.accounts[k][2])])

\* with distinct names the total is the sum of the entries to within the
\* rounding of each entry, half a cent apiece
TotalNearSumOfEntries ==
  (/\ CostsReturned
   /\ Len(ret.value.accounts) = Len(configured_accounts)) =>
    2 * Abs(ret.value.total_all_accounts
            - SumSeq([k \in 1..Len(ret.value.accounts) |->
                        TotalCostOf(ret.value.accounts[k][2])]))
      <= Len(configured_accounts) + 1

(***************************************************************************)
(* The dashboard payload (dashboard_data.py, demo_data.py)                 *)
(***************************************************************************)
\* Python's round() of n/d where the model cannot tell which way the float
\* falls at an exact half: every nearest integer
RoundEither(n, d) ==
  LET q == RoundDiv(n, d) IN {r \in {q - 1, q, q + 1} : IsNearest(r, n, d)}

Max2(a, b) == IF a >= b THEN a ELSE b

\* cost of day i (from 0) of _daily_costs, in cents: base in dollars, drift
\* in hundredths, jitter in tenths of a dollar
DailyCostChoices(i, days, base, drift, jitter) ==
  {Max2(50, 100 * base + 12 * base * ((i % 7) - 3) + t + 10 * jitter * ((i % 3) - 1)) :
     t \in RoundEither(base * drift * i, Max2(days - 1, 1))}

\* the lists _daily_costs can return for its first n days, dates counted in
\* days
RECURSIVE DailyCostPrefixes(_, _, _, _, _, _)
DailyCostPrefixes(n, start_date, days, base, drift, jitter) ==
  IF n = 0 THEN {<< >>}
  ELSE {Append(before, [date |-> start_date + n - 1, cost |-> c]) :
          before \in DailyCostPrefixes(n - 1, start_date, days, base, drift, jitter),
          c \in DailyCostChoices(n - 1, days, base, drift, jitter)}

DailyCostLists(start_date, days, base, drift, jitter) ==
  DailyCostPrefixes(days, start_date, days, base, drift, jitter)

prod_services ==
  << <<"Amazon EC2", 86025>>, <<"Amazon RDS", 42010>>, <<"Amazon S3", 18060>>,
     <<"AWS Lambda", 9540>>, <<"NAT Gateway", 7225>>, <<"AWS KMS", 3310>> >>
staging_services ==
  << <<"Amazon EC2", 21040>>, <<"Amazon RDS", 9815>>, <<"Amazon S3", 5530>>,
     <<"AWS Lambda", 2290>>, <<"NAT Gateway", 1860>> >>
dev_services ==
  << <<"Amazon EC2", 7550>>, <<"Amazon S3", 2815>>, <<"AWS Lambda", 1630>>,
     <<"Amazon CloudWatch", 980>> >>

DemoAccount(daily, services) ==
  [total_cost |-> SumSeq([k \in 1..Len(daily) |-> daily[k].cost]),
   by_service |-> services,
   daily_costs |-> daily,
   top_service |-> "Amazon EC2",
   service_count |-> Len(services)]

\* what get_demo_multi_account_data(days) can return at clock second now
DemoMultiAccountData(days, now) ==
  LET end_date == DayOf(now)
      start_date == end_date - days
  IN  {[accounts |-> << <<"prod", DemoAccount(prod_daily, prod_services)>>,
                        <<"staging", DemoAccount(staging_daily, staging_services)>>,
                        <<"dev", DemoAccount(dev_daily, dev_services)>> >>,
        total_all_accounts |-> SumSeq([k \in 1..days |-> prod_daily[k].cost])
                                 + SumSeq([k \in 1..days |-> staging_daily[k].cost])
                                 + SumSeq([k \in 1..days |-> dev_daily[k].cost]),
        period_days |-> days,
        analysis_date |-> now,
        start_date |-> start_date,
        end_date |-> end_date,
        demo |-> TRUE] :
         prod_daily \in DailyCostLists(start_date, days, 280, 25, 15),
         staging_daily \in DailyCostLists(start_date, days, 85, 5, 6),
         dev_daily \in DailyCostLists(start_date, days, 35, -3, 4)}

\* the rows get_demo_recommendations seeds, the first one implemented
DemoLedger(now) ==
  UpdateImplemented(<<NewRecommendation(now, 42000)>>, 1, now, Some(40000),
                    "Implemented in demo environment")
    \o <<NewRecommendation(now, 12000), NewRecommendation(now, 9500)>>

\* d.get(name, default) of a record
Field(d, name, default) == IF name \in DOMAIN d THEN d[name] ELSE default

\* _aggregate_services
AggregateServices(multi_account_data) ==
  LET accounts == multi_account_data.accounts
  IN  SortedDesc(CostsByService(Flatten(
        [k \in 1..Len(accounts) |-> Field(accounts[k][2], "by_service", << >>)])))

\* the parameters of a constructor after self, and those with a default
CostForecasterInit == [params |-> <<"claude_api_key">>, defaults |-> {}]
SavingsTrackerInit == [params |-> <<"db_path">>, defaults |-> {"db_path"}]
AutoRemediatorInit == [params |-> <<"claude_api_key", "dry_run">>, defaults |-> {"dry_run"}]

\* Python binds a call of keyword arguments to a signature when every
\* keyword names a parameter and every parameter without default is given;
\* otherwise the call raises TypeError
Binds(signature, keywords) ==
  LET names == {signature.params[k] : k \in 1..Len(signature.params)}
  IN  /\ keywords \subseteq names
      /\ names \ signature.defaults \subseteq keywords

\* (mode or "demo").lower()
Lower(mode) == IF mode = "DEMO" THEN "demo" ELSE mode
NormalMode(mode) == Lower(IF IsNull(mode) \/ Val(mode) = "" THEN "demo" ELSE Val(mode))

\* a value the model keeps as the call that computes it
Applied(op, args) == [call |-> op, args |-> args]

PayloadKeys ==
  <<"meta", "totals", "accounts", "services", "daily_costs", "forecast", "budget",
    "anomalies", "roi", "pending_recommendations", "remediation_plan">>

Raise(op, args, exception) == [op |-> op, args |-> args, raised |-> TRUE, value |-> exception]

\* What build_dashboard_payload(mode, days, monthly_budget, accounts_config)
\* can do at clock second now on a datastore holding stored_recs and
\* stored_snaps, when in live mode the k-th account's cost service does
\* outcomes[k]: whether it raises, what it returns or raises, and the tables
\* it leaves.  The cost data are fetched before the CostForecaster is
\* constructed; fetching changes nothing.
BuildOutcomes(mode, days, monthly_budget, accounts_config, outcomes, now, stored_recs, stored_snaps) ==
  LET m == NormalMode(mode)
      fetched == IF m = "demo" THEN DemoMultiAccountData(days, now)
                 ELSE {MultiAccountCosts(ParseAccounts(accounts_config), outcomes, days, now)}
      ledger == IF m = "demo" THEN DemoLedger(now) ELSE stored_recs
      left_snaps == IF m = "demo" THEN << >> ELSE stored_snaps
      roi == RoiSummary(ledger)
  IN  IF ~Binds(CostForecasterInit, {"provider"})
      THEN {[raised |-> TRUE, value |-> "TypeError",
             recs |-> stored_recs, snaps |-> stored_snaps]}
      ELSE IF ~Binds(SavingsTrackerInit, {"db_path"})
      THEN {[raised |-> TRUE, value |-> "TypeError",
             recs |-> IF m = "demo" THEN << >> ELSE stored_recs, snaps |-> left_snaps]}
      ELSE IF roi.raised
      THEN {[raised |-> TRUE, value |-> roi.value, recs |-> ledger, snaps |-> left_snaps]}
      ELSE IF ~Binds(AutoRemediatorInit, {"provider", "dry_run"})
      THEN {[raised |-> TRUE, value |-> "TypeError", recs |-> ledger, snaps |-> left_snaps]}
      ELSE
        {LET accounts_dict == multi_account_data.accounts
             account_data == IF accounts_dict # << >> THEN accounts_dict[1][2]
                             ELSE [daily_costs |-> << >>, by_service |-> << >>,
                                   total_cost |-> 0]
             total == multi_account_data.total_all_accounts
             budget == IF m = "demo" /\ monthly_budget < total
                       THEN RoundDiv(total * 11, 10) ELSE monthly_budget
             series == Field(account_data, "daily_costs", << >>)
         IN  [raised |-> FALSE,
              value |->
                << <<"meta", [mode |-> m, days |-> days,
                             start_date |-> multi_account_data.start_date,
                             end_date |-> multi_account_data.end_date]>>,
                   <<"totals", [total_spend |-> total, accounts |-> Len(accounts_dict)]>>,
                   <<"accounts", accounts_dict>>,
                   <<"services", AggregateServices(multi_account_data)>>,
                   <<"daily_costs", series>>,
                   <<"forecast", Applied("simple_forecast", <<account_data, 30>>)>>,
                   <<"budget", Applied("budget_alert", <<account_data, budget>>)>>,
                   <<"anomalies", Applied("detect_anomalies", <<series>>)>>,
                   <<"roi", roi.value>>,
                   <<"pending_recommendations", Limit(pending, 5)>>,
                   <<"remediation_plan",
                     Applied("create_remediation_plan", <<Limit(pending, 5)>>)>> >>,
              recs |-> ledger,
              snaps |-> left_snaps] :
           multi_account_data \in fetched,
           pending \in RecommendationOrders(ledger, Some("pending"))}

build_dashboard_payload(mode, days, monthly_budget, accounts_config, outcomes) ==
  \E built \in BuildOutcomes(mode, days, monthly_budget, accounts_config, outcomes,
                             clock, recs, snaps) :
    /\ ret' = [op |-> "build_dashboard_payload",
               args |-> <<mode, days, monthly_budget, accounts_config, outcomes>>,
               raised |-> built.raised,
               value |-> built.value]
    /\ recs' = built.recs
    /\ snaps' = built.snaps
    /\ UNCHANGED <<environ, client, writer, workers, _cache, configured_accounts, daily_costs, clock, calls>>

\* the mode argument: None, the default, another spelling of it, and live
Modes == {NULL, Some(""), Some("demo"), Some("DEMO"), Some("live")}
\* the days argument: the default and a second period
DashboardDays == {7, 8}
\* the monthly_budget argument, in cents: the default and one above the
\* demo total
DashboardBudgets == {100000, 500000}
\* "default:default", the default accounts_config
DefaultConfig ==
  <<"d", "e", "f", "a", "u", "l", "t", ":", "d", "e", "f", "a", "u", "l", "t">>
DashboardConfigs == {DefaultConfig, ThreeAccounts}
DashboardOutcomes == {NoClient, Response(<< << <<"EC2", 300000>> >> >>)}

InitDashboard ==
  /\ recs = << >>
  /\ snaps = << >>
  /\ clock \in 0..MaxClock
  /\ calls = 0
  /\ daily_costs = << >>
  /\ configured_accounts = << >>
  /\ Idle
  /\ ret = Return("__init__", << >>, NULL)

NextDashboard ==
  \E mode \in Modes, days \in DashboardDays, monthly_budget \in DashboardBudgets,
     accounts_config \in DashboardConfigs :
    \E outcomes \in [1..Len(ParseAccounts(accounts_config)) -> DashboardOutcomes] :
      build_dashboard_payload(mode, days, monthly_budget, accounts_config, outcomes)

SpecDashboard == InitDashboard /\ [][NextDashboard]_vars

(***************************************************************************)
(* Claims about the dashboard payload                                      *)
(***************************************************************************)
PayloadCalled == ret.op = "build_dashboard_payload"
DemoCalled == PayloadCalled /\ NormalMode(ret.args[1]) = "demo"

\* C20: build_dashboard_payload in demo mode runs to completion without
\* raising, and what it returns has exactly the keys meta, totals, accounts,
\* services, daily_costs, forecast, budget, anomalies, roi,
\* pending_recommendations and remediation_plan
C20_DemoPayloadKeys ==
  DemoCalled =>
    /\ ~ret.raised
    /\ DictKeys(ret.value) = PayloadKeys

\* the demo call with every argument at its default has raised TypeError
DemoDefaultRaises ==
  /\ PayloadCalled
  /\ ret.args[1] = Some("demo") /\ ret.args[2] = 7 /\ ret.args[3] = 100000
  /\ ret.args[4] = DefaultConfig
  /\ ret.raised /\ ret.value = "TypeError"

\* every call of build_dashboard_payload raises TypeError and leaves the
\* datastore as it was
PayloadAlwaysRaises ==
  PayloadCalled => ret.raised /\ ret.value = "TypeError" /\ recs = << >> /\ snaps = << >>

(***************************************************************************)
(* Two processes calling mark_implemented on one datastore                 *)
(*                                                                         *)
(* Each call opens its own connection.  The UPDATE starts a transaction    *)
(* that takes the datastore's write lock; a second connection's UPDATE     *)
(* finds the datastore busy and is retried by the connection's busy        *)
(* handler until the lock is free (the handler's timeout, 5 seconds by     *)
(* default, is taken not to run out: the holder commits right after its    *)
(* UPDATE).  The transaction's changes reach the stored table at commit.   *)
(***************************************************************************)
Writers == {1, 2}
\* notes arguments of the two calls
WriterNotes == {"first", "second"}

\* the table as the transaction of worker w leaves it
PendingUpdate(rs, w) == UpdateImplemented(rs, w.rec_id, Val(w.now), w.actual_savings, w.notes)

\* a faulty Committed: the notes of a row that is already implemented are
\* kept, the other columns are written
CommittedKeepingNotes(stored, pending) ==
  [i \in DOMAIN pending |->
     IF stored[i].status = "implemented"
     THEN [pending[i] EXCEPT !.notes = stored[i].notes]
     ELSE pending[i]]

\* conn.commit(): the table after the transaction's changes are stored
Committed(stored, pending) == pending

\* datetime.now() is evaluated when the arguments of execute are built
StampW(p) ==
  /\ workers[p].pc = "start"
  /\ workers' = [workers EXCEPT ![p].pc = "stamped", ![p].now = Some(clock)]
  /\ UNCHANGED <<environ, client, writer, _cache, configured_accounts, daily_costs, recs, snaps, clock, calls, ret>>

\* cursor.execute(UPDATE ...) and cursor.rowcount
ExecuteW(p) ==
  /\ workers[p].pc = "stamped"
  /\ writer = NULL
  /\ writer' = Some(p)
  /\ workers' = [workers EXCEPT ![p].pc = "executed",
                                ![p].pending = PendingUpdate(recs, workers[p]),
                                ![p].success = Some(RowCount(recs, workers[p].rec_id) > 0)]
  /\ UNCHANGED <<environ, client, _cache, configured_accounts, daily_costs, recs, snaps, clock, calls, ret>>

\* conn.commit(); calls counts the commits made
CommitW(p) ==
  /\ workers[p].pc = "executed"
  /\ recs' = Committed(recs, workers[p].pending)
  /\ writer' = NULL
  /\ calls' = calls + 1
  /\ workers' = [workers EXCEPT ![p].pc = "committed", ![p].committed = calls + 1]
  /\ UNCHANGED <<environ, client, _cache, configured_accounts, daily_costs, snaps, clock, ret>>

\* conn.close(); return success
ReturnW(p) ==
  /\ workers[p].pc = "committed"
  /\ workers' = [workers EXCEPT ![p].pc = "done"]
  /\ ret' = Return("mark_implemented",
                   <<workers[p].rec_id, workers[p].actual_savings, workers[p].notes>>,
                   Val(workers[p].success))
  /\ UNCHANGED <<environ, client, writer, _cache, configured_accounts, daily_costs, recs, snaps, clock, calls>>

\* datetime.now() moves on while the two calls run
TickW ==
  /\ clock < MaxClock
  /\ \E p \in Writers : workers[p].pc # "done"
  /\ clock' = clock + 1
  /\ UNCHANGED <<environ, client, writer, workers, _cache, configured_accounts, daily_costs, recs, snaps, calls, ret>>

NewWriter(actual, n) ==
  [pc |-> "start", rec_id |-> 1, actual_savings |-> actual, notes |-> n,
   now |-> NULL, pending |-> << >>, success |-> NULL, committed |-> 0]

\* one pending recommendation is stored; the two calls differ in their
\* actual savings and in their notes
InitWriters ==
  /\ \E est \in Estimates : recs = <<NewRecommendation(0, est)>>
  /\ snaps = << >>
  /\ clock = 0
  /\ calls = 0
  /\ daily_costs = << >>
  /\ configured_accounts = << >>
  /\ writer = NULL
  /\ _cache = EmptyCache
  /\ client = FALSE
  /\ environ = NULL
  /\ \E a1 \in Actuals, a2 \in Actuals, n1 \in WriterNotes, n2 \in WriterNotes :
       /\ a1 # a2 /\ n1 # n2
       /\ workers = <<NewWriter(a1, n1), NewWriter(a2, n2)>>
  /\ ret = Return("__init__", << >>, NULL)

NextWriters ==
  \/ \E p \in Writers : StampW(p)
  \/ \E p \in Writers : ExecuteW(p)
  \/ \E p \in Writers : CommitW(p)
  \/ \E p \in Writers : ReturnW(p)
  \/ TickW

SpecWriters == InitWriters /\ [][NextWriters]_vars

\* the stored row carries what the call of worker p wrote, in every column
WrittenBy(p) ==
  /\ recs[1].status = "implemented"
  /\ recs[1].actual_monthly_savings = workers[p].actual_savings
  /\ recs[1].notes = Some(workers[p].notes)
  /\ recs[1].implemented_date = workers[p].now

BothDone == \A p \in Writers : workers[p].pc = "done"

C22_RoiNeverRaises ==
  ret.op = "get_roi_summary" => ~ret.raised

\* get_roi_summary has raised on a ledger whose one implemented record has
\* an estimate of zero and an actual value
RoiRaisedOnZeroEstimate ==
  /\ ret.op = "get_roi_summary"
  /\ ret.raised /\ ret.value = "ZeroDivisionError"
  /\ Len(recs) = 1
  /\ recs[1].estimated_monthly_savings = 0
  /\ recs[1].status = "implemented"
  /\ recs[1].actual_monthly_savings = Some(9000)

\* C23: for every series of at least 7 non-negative points and every monthly
\* budget of at least 0, a budget of 0 and an all-zero series included,
\* budget_alert returns a budget result and does not raise
C23_BudgetNeverRaises ==
  (ret.op = "budget_alert" /\ Len(daily_costs) >= MinPoints /\ ret.args[1] >= 0)
    => /\ ~ret.raised
       /\ ret.value.alert \in BOOLEAN

\* budget_alert raises exactly when the budget is 0
BudgetRaisesAtZeroBudget ==
  (ret.op = "budget_alert" /\ Len(daily_costs) >= MinPoints)
    => (ret.raised <=> ret.args[1] = 0)

\* budget_alert has raised for a budget of 0, on an all-zero series of 7 points
BudgetRaisedOnZeros ==
  /\ ret.op = "budget_alert"
  /\ daily_costs = <<0, 0, 0, 0, 0, 0, 0>>
  /\ ret.args[1] = 0
  /\ ret.raised /\ ret.value = "ZeroDivisionError"

(***************************************************************************)
(* CostForecaster.forecast_with_ai                                         *)
(***************************************************************************)
\* the keys of trend_analysis that the prompt reads, in the order it reads them
PromptFields ==
  <<"average_daily", "trend", "growth_rate", "volatility", "min_daily", "max_daily">>

\* the places of the keys of PromptFields that the analysis does not have
MissingFields(trend_analysis) ==
  {k \in 1..Len(PromptFields) : PromptFields[k] \notin DOMAIN trend_analysis}

SetMin(S) == CHOOSE x \in S : \A y \in S : x <= y

\* forecast_with_ai(cost_data) of a forecaster with or without a client,
\* when the API call answers or raises
ForecastWithAI(has_client, cost_data, api_raises) ==
  IF ~has_client THEN [raised |-> FALSE, value |-> "not configured"]
  ELSE IF "daily_costs" \notin DOMAIN cost_data
  THEN [raised |-> FALSE, value |-> "insufficient historical data"]
  ELSE
    LET trend_analysis == TrendOf(cost_data.daily_costs)
        missing == MissingFields(trend_analysis)
    IN  IF missing # {}
        THEN [raised |-> TRUE, value |-> <<"KeyError", PromptFields[SetMin(missing)]>>]
        ELSE IF /\ "by_service" \in DOMAIN cost_data
                /\ cost_data.by_service # << >>
                /\ "total_cost" \notin DOMAIN cost_data
        THEN [raised |-> TRUE, value |-> <<"KeyError", "total_cost">>]
        ELSE IF api_raises
        THEN [raised |-> FALSE, value |-> "error generating forecast"]
        ELSE [raised |-> FALSE, value |-> "forecast"]

\* the cost_data a caller hands over: nothing, the series alone, the series
\* with services and their total, the series with services but no total
CostDataShapes == {"empty", "series", "full", "no_total"}

CostData(shape, costs) ==
  IF shape = "empty" THEN [period_days |-> 7]
  ELSE IF shape = "series" THEN [daily_costs |-> costs]
  ELSE IF shape = "full"
  THEN [daily_costs |-> costs, by_service |-> <<<<"EC2", SumSeq(costs)>>>>,
        total_cost |-> SumSeq(costs)]
  ELSE [daily_costs |-> costs, by_service |-> <<<<"EC2", SumSeq(costs)>>>>]

forecast_with_ai(shape, api_raises) ==
  /\ ret' = [op |-> "forecast_with_ai", args |-> <<shape, api_raises>>]
              @@ ForecastWithAI(client, CostData(shape, daily_costs), api_raises)
  /\ UNCHANGED <<environ, client, writer, workers, _cache, configured_accounts, daily_costs, recs, snaps, clock, calls>>

\* CostForecaster(claude_api_key) with and without a key
InitForecaster ==
  /\ recs = << >>
  /\ snaps = << >>
  /\ clock = 0
  /\ calls = 0
  /\ daily_costs \in Series
  /\ configured_accounts = << >>
  /\ writer = NULL
  /\ workers = << >>
  /\ _cache = EmptyCache
  /\ client \in BOOLEAN
  /\ environ = NULL
  /\ ret = Return("__init__", << >>, NULL)

NextForecaster ==
  \E shape \in CostDataShapes, api_raises \in BOOLEAN : forecast_with_ai(shape, api_raises)

SpecForecaster == InitForecaster /\ [][NextForecaster]_vars

\* C24: with a client configured and fewer than 7 points in daily_costs,
\* forecast_with_ai returns a text to its caller and does not raise
C24_InsufficientNotRaised ==
  (/\ ret.op = "forecast_with_ai"
   /\ client
   /\ ret.args[1] # "empty"
   /\ Len(daily_costs) < MinPoints)
    => ~ret.raised

\* with a client and a series in cost_data, fewer than 7 points always raise
\* KeyError for the key volatility
ShortSeriesRaises ==
  (ret.op = "forecast_with_ai" /\ client /\ ret.args[1] # "empty")
    => (Len(daily_costs) < MinPoints
          <=> (ret.raised /\ ret.value = <<"KeyError", "volatility">>))

\* forecast_with_ai has raised KeyError on a series of three points
ShortSeriesRaised ==
  /\ ret.op = "forecast_with_ai"
  /\ client
  /\ Len(daily_costs) = 3
  /\ ret.raised /\ ret.value = <<"KeyError", "volatility">>

(***************************************************************************)
(* The web application (app.py): token check, payload cache, routes        *)
(* A string is a sequence of one-character strings.                        *)
(***************************************************************************)
\* int(os.getenv("DASHBOARD_CACHE_TTL", "60")), in seconds
CACHE_TTL == 60
\* last clock second of a run of the application
MaxAppClock == 60

Digit(d) == <<"0", "1", "2", "3", "4", "5", "6", "7", "8", "9">>[d + 1]

\* str(n) of an integer n >= 0
RECURSIVE IntStr(_)
IntStr(n) == IF n < 10 THEN <<Digit(n)>> ELSE IntStr(n \div 10) \o <<Digit(n % 10)>>

\* str(x) of a float x >= 0 given in cents: 1000.0, 1000.5, 1000.25
FloatStr(cents) ==
  LET frac == cents % 100
  IN  IntStr(cents \div 100) \o <<".">>
        \o (IF frac % 10 = 0 THEN <<Digit(frac \div 10)>>
            ELSE <<Digit(frac \div 10), Digit(frac % 10)>>)

\* _cache_key: f"{mode}:{days}:{budget}:{accounts}"
CacheKey(mode, days, budget, accounts) ==
  mode \o <<":">> \o IntStr(days) \o <<":">> \o FloatStr(budget) \o <<":">> \o accounts

\* the mode strings of the model, as the builder's mode argument
ModeName(mode) ==
  CASE mode = <<"d", "e", "m", "o">> -> "demo"
    [] mode = <<"l", "i", "v", "e">> -> "live"
    [] OTHER -> "live:7:1.0"

\* the test of get_cached_payload: a payload is stored, for this key, less
\* than CACHE_TTL seconds ago
CacheHit(cache, key, now) ==
  /\ cache.payload # NULL
  /\ cache.key = Some(key)
  /\ now - cache.ts < CACHE_TTL

\* What get_cached_payload(mode, days, budget, accounts) can do at clock
\* second now: whether it raises, what it returns or raises, and the cache
\* entry and the tables it leaves
CachedPayloads(cache, now, mode, days, budget, accounts, outcomes, stored_recs, stored_snaps) ==
  LET key == CacheKey(mode, days, budget, accounts)
  IN  IF CacheHit(cache, key, now)
      THEN {[raised |-> FALSE, value |-> Val(cache.payload), cache |-> cache,
             recs |-> stored_recs, snaps |-> stored_snaps]}
      ELSE {IF built.raised
            THEN [raised |-> TRUE, value |-> built.value, cache |-> cache,
                  recs |-> built.recs, snaps |-> built.snaps]
            ELSE [raised |-> FALSE, value |-> built.value,
                  cache |-> [ts |-> now, key |-> Some(key), payload |-> Some(built.value)],
                  recs |-> built.recs, snaps |-> built.snaps] :
              built \in BuildOutcomes(Some(ModeName(mode)), days, budget, accounts, outcomes,
                                      now, stored_recs, stored_snaps)}

\* os.getenv("DASHBOARD_API_TOKEN", "").strip()
API_TOKEN == Strip(IF IsNull(environ) THEN << >> ELSE Val(environ))

\* request.headers.get("X-API-Token") or request.args.get("token")
PresentedToken(request) ==
  IF ~IsNull(request.header) /\ Val(request.header) # << >>
  THEN request.header ELSE request.token

\* a faulty Admitted: any token that is presented is taken
AdmittedAnyToken(request) ==
  \/ API_TOKEN = << >>
  \/ ~IsNull(PresentedToken(request))

\* require_token lets the request through to the handler
Admitted(request) ==
  \/ API_TOKEN = << >>
  \/ LET token == PresentedToken(request)
     IN  ~IsNull(token) /\ Val(token) = API_TOKEN

\* the answer of a route to a request whose numbers are well formed:
\* abort(401) of require_token, or what the handler makes of
\* get_cached_payload; an exception leaving the handler is answered 500
Answers(route, request, outcomes) ==
  IF ~Admitted(request)
  THEN {[status |-> 401, body |-> NULL, cache |-> _cache, recs |-> recs, snaps |-> snaps]}
  ELSE {[status |-> IF route = "/api/summary" /\ got.raised THEN 500 ELSE 200,
         body |-> IF got.raised THEN NULL ELSE Some(got.value),
         cache |-> got.cache, recs |-> got.recs, snaps |-> got.snaps] :
          got \in CachedPayloads(_cache, clock, request.mode, request.days, request.budget,
                                 request.accounts, outcomes, recs, snaps)}

get_cached_payload(mode, days, budget, accounts, outcomes) ==
  \E got \in CachedPayloads(_cache, clock, mode, days, budget, accounts, outcomes, recs, snaps) :
    /\ ret' = [op |-> "get_cached_payload", args |-> <<mode, days, budget, accounts>>,
               raised |-> got.raised, value |-> got.value]
    /\ _cache' = got.cache
    /\ recs' = got.recs
    /\ snaps' = got.snaps
    /\ UNCHANGED <<environ, client, writer, workers, configured_accounts, daily_costs, clock, calls>>

\* GET /api/summary
api_summary(request, outcomes) ==
  \E answer \in Answers("/api/summary", request, outcomes) :
    /\ ret' = Return("api_summary", <<request>>, [status |-> answer.status, body |-> answer.body])
    /\ _cache' = answer.cache
    /\ recs' = answer.recs
    /\ snaps' = answer.snaps
    /\ UNCHANGED <<environ, client, writer, workers, configured_accounts, daily_costs, clock, calls>>

\* GET /api/stream, up to the first event of event_stream: the response is
\* begun with status 200 and the stream breaks off when the payload cannot
\* be had
api_stream(request, outcomes) ==
  \E answer \in Answers("/api/stream", request, outcomes) :
    /\ ret' = Return("api_stream", <<request>>, [status |-> answer.status, body |-> answer.body])
    /\ _cache' = answer.cache
    /\ recs' = answer.recs
    /\ snaps' = answer.snaps
    /\ UNCHANGED <<environ, client, writer, workers, configured_accounts, daily_costs, clock, calls>>

\* time.time() moves on by half the expiry time
TickApp ==
  /\ clock + CACHE_TTL \div 2 <= MaxAppClock
  /\ clock' = clock + CACHE_TTL \div 2
  /\ UNCHANGED <<environ, client, writer, workers, _cache, configured_accounts, daily_costs, recs, snaps, calls, ret>>

\* request parameters: two modes and a mode with colons in it, the default
\* period, a budget of 1.0, an account list and one that begins like a key
AppModes ==
  {<<"d", "e", "m", "o">>, <<"l", "i", "v", "e">>,
   <<"l", "i", "v", "e", ":", "7", ":", "1", ".", "0">>}
AppDays == {7}
AppBudgets == {100}
AppAccounts == {<<"a">>, <<"7", ":", "1", ".", "0", ":", "a">>}
\* X-API-Token headers: absent, empty, right and wrong
TokenHeaders == {NULL, Some(<< >>), Some(<<"s">>), Some(<<"t">>)}
\* token query parameters: absent and given
TokenParams == {NULL, Some(<<"s">>)}
\* DASHBOARD_API_TOKEN: unset, empty, a token, blank, a token after a blank
TokenEnvs == {NULL, Some(<< >>), Some(<<"s">>), Some(<<" ">>), Some(<<" ", "s">>)}

Requests ==
  [header : TokenHeaders, token : TokenParams, mode : AppModes, days : AppDays,
   budget : AppBudgets, accounts : AppAccounts]

InitApp ==
  /\ recs = << >>
  /\ snaps = << >>
  /\ clock = 0
  /\ calls = 0
  /\ daily_costs = << >>
  /\ configured_accounts = << >>
  /\ writer = NULL
  /\ workers = << >>
  /\ _cache = EmptyCache
  /\ client = FALSE
  /\ environ \in TokenEnvs
  /\ ret = Return("__init__", << >>, NULL)

NextApp ==
  \/ \E mode \in AppModes, days \in AppDays, budget \in AppBudgets, accounts \in AppAccounts :
       \E outcomes \in [1..Len(ParseAccounts(accounts)) -> DashboardOutcomes] :
         get_cached_payload(mode, days, budget, accounts, outcomes)
  \/ \E request \in Requests :
       \E outcomes \in [1..Len(ParseAccounts(request.accounts)) -> DashboardOutcomes] :
         api_summary(request, outcomes)
  \/ \E request \in Requests :
       \E outcomes \in [1..Len(ParseAccounts(request.accounts)) -> DashboardOutcomes] :
         api_stream(request, outcomes)
  \/ TickApp

SpecApp == InitApp /\ [][NextApp]_vars

(***************************************************************************)
(* Claims about the payload cache and the routes                           *)
(***************************************************************************)
\* a step that is a call of get_cached_payload
CachedCall ==
  /\ ret'.op = "get_cached_payload"
  /\ clock' = clock
  /\ (ret' # ret \/ _cache' # _cache)

\* the payload was built from these request parameters
BuiltFor(payload, mode, days) ==
  /\ DictGet(payload, "meta").mode = NormalMode(Some(ModeName(mode)))
  /\ DictGet(payload, "meta").days = days

\* C25: a call of get_cached_payload returns the stored payload, and leaves
\* the entry alone, if and only if the entry was stored for the same request
\* parameters (taken here by their key) less than CACHE_TTL seconds before;
\* otherwise it builds the payload from its own parameters, stores it with
\* the time of the call as the single entry, and returns it
C25_CacheRule ==
  [][CachedCall =>
       LET mode == ret'.args[1]
           days == ret'.args[2]
           key == CacheKey(mode, days, ret'.args[3], ret'.args[4])
       IN  /\ ~ret'.raised
           /\ IF /\ _cache.payload # NULL
                 /\ _cache.key = Some(key)
                 /\ clock - _cache.ts < CACHE_TTL
              THEN ret'.value = Val(_cache.payload) /\ _cache' = _cache
              ELSE /\ BuiltFor(ret'.value, mode, days)
                   /\ _cache' = [ts |-> clock, key |-> Some(key),
                                 payload |-> Some(ret'.value)]]_vars

\* every call of get_cached_payload raises the builder's TypeError and
\* nothing is ever stored
CacheNeverFilled ==
  /\ _cache = EmptyCache
  /\ ret.op = "get_cached_payload" => (ret.raised /\ ret.value = "TypeError")

\* get_cached_payload has raised at a time at which a stored entry would
\* have expired
CachedCallRaised ==
  /\ ret.op = "get_cached_payload"
  /\ ret.raised
  /\ clock = CACHE_TTL

\* different request parameters have different keys
CacheKeyIsInjective ==
  ret.op = "get_cached_payload"
    => \A mode \in AppModes, accounts \in AppAccounts :
         <<mode, accounts>> # <<ret.args[1], ret.args[4]>>
           => CacheKey(mode, ret.args[2], ret.args[3], accounts)
                # CacheKey(ret.args[1], ret.args[2], ret.args[3], ret.args[4])

(***************************************************************************)
(* Two threads of the application in get_cached_payload                    *)
(*                                                                         *)
(* The summary route and the loop of a stream run in threads of one        *)
(* process and share _cache.  A thread can be switched between any two     *)
(* reads of _cache; _cache.update(...) is one step.                        *)
\* a step that is the answer of /api/summary or /api/stream to a request
RouteCall ==
  /\ ret'.op \in {"api_summary", "api_stream"}
  /\ clock' = clock

\* the value DASHBOARD_API_TOKEN is set to, empty when it is unset
TokenSet == IF IsNull(environ) THEN << >> ELSE Val(environ)

\* the token of a request when an empty header counts as given
HeaderElseParam(request) ==
  IF ~IsNull(request.header) THEN request.header ELSE request.token

\* the token of a request when an empty header counts as absent
NonEmptyHeaderElseParam(request) ==
  IF ~IsNull(request.header) /\ Val(request.header) # << >>
  THEN request.header ELSE request.token

\* C28 as stated: when DASHBOARD_API_TOKEN is set to a non-empty value the
\* handlers run only for requests whose token (the header, or the query
\* parameter when the header is absent) equals it, every other request is
\* answered 401 with the cache and the tables left alone; when it is unset
\* or empty no request is answered 401
C28_TokenGateAsStated ==
  [][RouteCall =>
       LET request == ret'.args[1]
           status == ret'.value.status
       IN  IF TokenSet # << >>
           THEN /\ status # 401 <=> HeaderElseParam(request) = Some(TokenSet)
                /\ status = 401 => UNCHANGED <<_cache, recs, snaps>>
           ELSE status # 401]_vars

\* C28, amended: the token is compared with the value of DASHBOARD_API_TOKEN
\* stripped of surrounding blanks, and the token of a request is its
\* X-API-Token header when that is not empty and its token query parameter
\* otherwise. When the stripped value is not empty the handlers run exactly
\* for the requests whose token equals it, and every other request is
\* answered 401 with no body, the cache and the tables left alone; when it
\* is empty no request is answered 401
C28_TokenGate ==
  [][RouteCall =>
       LET request == ret'.args[1]
           status == ret'.value.status
       IN  IF Strip(TokenSet) # << >>
           THEN /\ status # 401 <=> NonEmptyHeaderElseParam(request) = Some(Strip(TokenSet))
                /\ status = 401 => /\ ret'.value.body = NULL
                                   /\ UNCHANGED <<_cache, recs, snaps>>
           ELSE status # 401]_vars

\* a request with an empty header and the token as query parameter has
\* reached its handler although DASHBOARD_API_TOKEN differs from the token
\* by a leading blank
C28_Witness ==
  /\ ret.op \in {"api_summary", "api_stream"}
  /\ Strip(TokenSet) # << >>
  /\ TokenSet # Strip(TokenSet)
  /\ ret.args[1].header = Some(<< >>)
  /\ ret.args[1].token = Some(Strip(TokenSet))
  /\ ret.value.status # 401

\* a request with a wrong header has been answered 401 although its query
\* parameter is the token
WrongHeaderRefused ==
  /\ ret.op \in {"api_summary", "api_stream"}
  /\ ret.args[1].header = Some(<<"t">>)
  /\ ret.args[1].token = Some(Strip(TokenSet))
  /\ ret.value.status = 401

\* with a value of blanks only, a request without any token has reached its
\* handler
BlankTokenAdmitsAll ==
  /\ ret.op \in {"api_summary", "api_stream"}
  /\ TokenSet # << >>
  /\ IsNull(ret.args[1].header)
  /\ IsNull(ret.args[1].token)
  /\ ret.value.status # 401

(***************************************************************************)
Threads == {1, 2}

NewThread(mode, days, budget, accounts) ==
  [pc |-> "start", mode |-> mode, days |-> days, budget |-> budget, accounts |-> accounts,
   now |-> 0, key |-> << >>, payload |-> NULL, raised |-> FALSE, value |-> NULL]

\* What the next step of a thread at w can be: the thread after the step,
\* and the cache entry and the tables the step leaves
ThreadSteps(w, cache, now, stored_recs, stored_snaps, outcomes) ==
  LET same == [cache |-> cache, recs |-> stored_recs, snaps |-> stored_snaps]
      at(pc) == {[worker |-> [w EXCEPT !.pc = pc]] @@ same}
  IN  IF w.pc = "start"
      THEN \* now = time.time(); key = _cache_key(...)
           {[worker |-> [w EXCEPT !.pc = "test_payload", !.now = now,
                                  !.key = CacheKey(w.mode, w.days, w.budget, w.accounts)]]
              @@ same}
      ELSE IF w.pc = "test_payload"
      THEN \* if _cache["payload"] and ...
           at(IF cache.payload # NULL THEN "test_key" ELSE "build")
      ELSE IF w.pc = "test_key"
      THEN \* ... _cache["key"] == key and ...
           at(IF cache.key = Some(w.key) THEN "test_ts" ELSE "build")
      ELSE IF w.pc = "test_ts"
      THEN \* ... (now - _cache["ts"]) < CACHE_TTL
           at(IF w.now - cache.ts < CACHE_TTL THEN "return_stored" ELSE "build")
      ELSE IF w.pc = "return_stored"
      THEN \* return _cache["payload"]
           {[worker |-> [w EXCEPT !.pc = "done", !.value = cache.payload]] @@ same}
      ELSE IF w.pc = "build"
      THEN \* payload = build_dashboard_payload(...)
           {[worker |-> IF built.raised
                        THEN [w EXCEPT !.pc = "done", !.raised = TRUE,
                                       !.value = Some(built.value)]
                        ELSE [w EXCEPT !.pc = "update", !.payload = Some(built.value)],
             cache |-> cache, recs |-> built.recs, snaps |-> built.snaps] :
              built \in BuildOutcomes(Some(ModeName(w.mode)), w.days, w.budget, w.accounts,
                                      outcomes, now, stored_recs, stored_snaps)}
      ELSE \* _cache.update({"ts": now, "key": key, "payload": payload}); return payload
           {[worker |-> [w EXCEPT !.pc = "done", !.value = w.payload],
             cache |-> [ts |-> w.now, key |-> Some(w.key), payload |-> w.payload],
             recs |-> stored_recs, snaps |-> stored_snaps]}

\* thread t makes its next step; ret is what the thread that finished last
\* returned or raised
StepT(t, outcomes) ==
  /\ workers[t].pc # "done"
  /\ \E step \in ThreadSteps(workers[t], _cache, clock, recs, snaps, outcomes) :
       /\ workers' = [workers EXCEPT ![t] = step.worker]
       /\ _cache' = step.cache
       /\ recs' = step.recs
       /\ snaps' = step.snaps
       /\ ret' = IF step.worker.pc = "done"
                 THEN [op |-> "get_cached_payload",
                       args |-> <<step.worker.mode, step.worker.days, step.worker.budget,
                                  step.worker.accounts>>,
                       raised |-> step.worker.raised,
                       value |-> Val(step.worker.value)]
                 ELSE ret
  /\ UNCHANGED <<environ, client, writer, configured_accounts, daily_costs, clock, calls>>

\* time.time() moves on while the threads run
TickT ==
  /\ clock + CACHE_TTL \div 2 <= MaxAppClock
  /\ \E t \in Threads : workers[t].pc # "done"
  /\ clock' = clock + CACHE_TTL \div 2
  /\ UNCHANGED <<environ, client, writer, workers, _cache, configured_accounts, daily_costs, recs, snaps, calls, ret>>

\* the periods the two callers ask for
ThreadDays == {7, 30}

\* two calls with different request parameters are about to start
InitThreads ==
  /\ recs = << >>
  /\ snaps = << >>
  /\ clock = 0
  /\ calls = 0
  /\ daily_costs = << >>
  /\ configured_accounts = << >>
  /\ writer = NULL
  /\ _cache = EmptyCache
  /\ client = FALSE
  /\ environ = NULL
  /\ \E m1 \in AppModes, m2 \in AppModes, d1 \in ThreadDays, d2 \in ThreadDays,
        a1 \in AppAccounts, a2 \in AppAccounts :
       /\ <<m1, d1, a1>> # <<m2, d2, a2>>
       /\ workers = <<NewThread(m1, d1, 100, a1), NewThread(m2, d2, 100, a2)>>
  /\ ret = Return("__init__", << >>, NULL)

NextThreads ==
  \/ \E t \in Threads :
       \E outcomes \in [1..Len(ParseAccounts(workers[t].accounts)) -> DashboardOutcomes] :
         StepT(t, outcomes)
  \/ TickT

SpecThreads == InitThreads /\ [][NextThreads]_vars

\* C26: with two threads in get_cached_payload for different request
\* parameters, every call that has finished has returned a payload, and that
\* payload was built from the call's own parameters
C26_OwnPayload ==
  \A t \in Threads :
    workers[t].pc = "done"
      => /\ ~workers[t].raised
         /\ BuiltFor(Val(workers[t].value), workers[t].mode, workers[t].days)

\* both calls have raised the builder's TypeError, nothing is stored
BothCallsRaised ==
  /\ \A t \in Threads :
       workers[t].pc = "done" /\ workers[t].raised /\ workers[t].value = Some("TypeError")
  /\ _cache = EmptyCache

\* a call that has finished has raised the builder's TypeError
ThreadsAlwaysRaise ==
  \A t \in Threads :
    workers[t].pc = "done" => (workers[t].raised /\ workers[t].value = Some("TypeError"))

(***************************************************************************)
(* AutoRemediator.create_remediation_plan on the ledger's pending rows     *)
(***************************************************************************)
UpperCase == <<"A", "B", "C", "D", "E", "F", "G", "H", "I", "J", "K", "L", "M",
               "N", "O", "P", "Q", "R", "S", "T", "U", "V", "W", "X", "Y", "Z">>
LowerCase == <<"a", "b", "c", "d", "e", "f", "g", "h", "i", "j", "k", "l", "m",
               "n", "o", "p", "q", "r", "s", "t", "u", "v", "w", "x", "y", "z">>

\* str.lower()
LowerChar(c) ==
  IF \E k \in 1..26 : UpperCase[k] = c
  THEN LowerCase[CHOOSE k \in 1..26 : UpperCase[k] = c] ELSE c
LowerStr(s) == [k \in 1..Len(s) |-> LowerChar(s[k])]

\* part in s
Contains(s, part) ==
  \E k \in 0..(Len(s) - Len(part)) : SubSeq(s, k + 1, k + Len(part)) = part

\* the efforts create_remediation_plan takes for quick wins
QuickWins == {<<"q", "u", "i", "c", "k", "_", "w", "i", "n">>, <<"q", "u", "i", "c", "k", " ", "w", "i", "n">>, <<"<", "1", " ", "h", "o", "u", "r">>}

\* rec.get(key, default) of a row dict
RecGet(rec, key, default) == IF key \in DOMAIN rec THEN rec[key] ELSE default

\* the step create_remediation_plan appends for rec, if any
PlanSteps(rec) ==
  LET title == LowerStr(RecGet(rec, "title", << >>))
      id == RecGet(rec, "id", NULL)
  IN  IF LowerStr(RecGet(rec, "risk", << >>)) # <<"l", "o", "w">> THEN << >>
      ELSE IF LowerStr(RecGet(rec, "effort", << >>)) \notin QuickWins THEN << >>
      ELSE IF Contains(title, <<"e", "b", "s">>) /\ Contains(title, <<"d", "e", "l", "e", "t", "e">>)
      THEN <<[recommendation_id |-> id, optimization_type |-> "EBS_delete", auto_safe |-> TRUE]>>
      ELSE IF Contains(title, <<"s", "n", "a", "p", "s", "h", "o", "t">>) /\ Contains(title, <<"d", "e", "l", "e", "t", "e">>)
      THEN <<[recommendation_id |-> id, optimization_type |-> "RDS_snapshot_delete",
              auto_safe |-> TRUE]>>
      ELSE IF Contains(title, <<"s", "3">>) /\ Contains(title, <<"l", "i", "f", "e", "c", "y", "c", "l", "e">>)
      THEN <<[recommendation_id |-> id, optimization_type |-> "S3_lifecycle",
              auto_safe |-> TRUE]>>
      ELSE << >>

RECURSIVE RemediationPlan(_)
RemediationPlan(recommendations) ==
  IF recommendations = << >> THEN << >>
  ELSE PlanSteps(Head(recommendations)) \o RemediationPlan(Tail(recommendations))

\* titles of stored recommendations: the three of the demo ledger and an
\* EBS delete
DownsizeTitle ==
    <<"D", "o", "w", "n", "s", "i", "z", "e", " ", "E", "C", "2",
      " ", "m", "5", ".", "4", "x", "l", "a", "r", "g", "e", " ",
      "t", "o", " ", "m", "5", ".", "x", "l", "a", "r", "g", "e",
      " ", "(", "p", "r", "o", "d", ")">>
LifecycleTitle ==
    <<"A", "d", "d", " ", "S", "3", " ", "l", "i", "f", "e", "c",
      "y", "c", "l", "e", " ", "p", "o", "l", "i", "c", "y", " ",
      "t", "o", " ", "e", "n", "a", "b", "l", "e", " ", "I", "n",
      "t", "e", "l", "l", "i", "g", "e", "n", "t", "-", "T", "i",
      "e", "r", "i", "n", "g", " ", "(", "p", "r", "o", "d", ")">>
NatTitle ==
    <<"C", "o", "n", "s", "o", "l", "i", "d", "a", "t", "e", " ",
      "N", "A", "T", " ", "g", "a", "t", "e", "w", "a", "y", "s",
      " ", "a", "c", "r", "o", "s", "s", " ", "A", "Z", "s", " ",
      "(", "s", "t", "a", "g", "i", "n", "g", "/", "d", "e", "v",
      ")">>
EbsTitle ==
    <<"D", "e", "l", "e", "t", "e", " ", "u", "n", "a", "t", "t",
      "a", "c", "h", "e", "d", " ", "E", "B", "S", " ", "v", "o",
      "l", "u", "m", "e", "s">>
Titles == {DownsizeTitle, LifecycleTitle, NatTitle, EbsTitle}
RiskLevels == {<<"l", "o", "w">>, <<"m", "e", "d", "i", "u", "m">>}
Efforts == {<<"q", "u", "i", "c", "k", "_", "w", "i", "n">>, <<"m", "e", "d", "i", "u", "m">>}

\* a row as add_recommendation(title, estimated_savings, risk_level, effort)
\* stores it, and after mark_implemented
TitledRow(title, risk_level, effort, implemented) ==
  LET row == NewRecommendation(0, 12000)
               @@ [title |-> title, risk_level |-> risk_level, effort |-> effort]
  IN  IF implemented
      THEN UpdateImplemented(<<row>>, 1, 0, Some(40000), "Implemented in demo environment")[1]
      ELSE row

TitledRows ==
  {TitledRow(title, risk_level, effort, implemented) :
     title \in Titles, risk_level \in RiskLevels, effort \in Efforts,
     implemented \in BOOLEAN}

\* the demo ledger with its titles: the downsizing implemented, the lifecycle
\* policy and the NAT consolidation pending
DemoTitledLedger ==
  <<TitledRow(DownsizeTitle, <<"l", "o", "w">>, <<"q", "u", "i", "c", "k", "_", "w", "i", "n">>, TRUE),
    TitledRow(LifecycleTitle, <<"l", "o", "w">>, <<"q", "u", "i", "c", "k", "_", "w", "i", "n">>, FALSE),
    TitledRow(NatTitle, <<"m", "e", "d", "i", "u", "m">>, <<"m", "e", "d", "i", "u", "m">>, FALSE)>>

\* remediator.create_remediation_plan(tracker.get_recommendations(
\* status="pending")[:5]), as the dashboard builder calls it
create_remediation_plan ==
  /\ \E pending \in RecommendationOrders(recs, Some("pending")) :
       ret' = Return("create_remediation_plan", <<Limit(pending, 5)>>,
                     RemediationPlan(Limit(pending, 5)))
  /\ UNCHANGED <<environ, client, writer, workers, _cache, configured_accounts, daily_costs, recs, snaps, clock, calls>>

InitPlan ==
  /\ recs \in UNION {[1..n -> TitledRows] : n \in 0..MaxRows} \cup {DemoTitledLedger}
  /\ snaps = << >>
  /\ clock = 0
  /\ calls = 0
  /\ daily_costs = << >>
  /\ configured_accounts = << >>
  /\ Idle
  /\ ret = Return("__init__", << >>, NULL)

NextPlan == create_remediation_plan

SpecPlan == InitPlan /\ [][NextPlan]_vars

\* the recommendation is one the plan is to have a step for
Remediable(rec) ==
  /\ LowerStr(rec.risk_level) = <<"l", "o", "w">>
  /\ LowerStr(rec.effort) \in QuickWins
  /\ LET title == LowerStr(rec.title)
     IN  \/ Contains(title, <<"e", "b", "s">>) /\ Contains(title, <<"d", "e", "l", "e", "t", "e">>)
         \/ Contains(title, <<"s", "n", "a", "p", "s", "h", "o", "t">>) /\ Contains(title, <<"d", "e", "l", "e", "t", "e">>)
         \/ Contains(title, <<"s", "3">>) /\ Contains(title, <<"l", "i", "f", "e", "c", "y", "c", "l", "e">>)

PlanReturned == ret.op = "create_remediation_plan"

\* C27: the plan made from the ledger's pending recommendations has one step
\* for each of them with low risk, quick-win effort and a title naming an
\* EBS delete, a snapshot delete or an S3 lifecycle change, and no other
\* step; for the demo ledger it has an S3_lifecycle step with the id of the
\* pending lifecycle recommendation
C27_PlanCoversPending ==
  PlanReturned =>
    LET pending == ret.args[1]
        plan == ret.value
    IN  /\ \A k \in 1..Len(pending) :
             Cardinality({j \in 1..Len(plan) : plan[j].recommendation_id = pending[k].id})
               = IF Remediable(pending[k]) THEN 1 ELSE 0
        /\ recs = DemoTitledLedger
             => \E j \in 1..Len(plan) :
                  /\ plan[j].optimization_type = "S3_lifecycle"
                  /\ plan[j].recommendation_id = 2

\* the plan made from rows of the ledger is always empty
PlanAlwaysEmpty == PlanReturned => ret.value = << >>

\* the plan for the demo ledger's pending rows has come back empty
DemoPlanEmpty ==
  /\ PlanReturned
  /\ recs = DemoTitledLedger
  /\ Len(ret.args[1]) = 2
  /\ ret.value = << >>

(***************************************************************************)
(* Claims about the sign and the size of the forecast                      *)
(***************************************************************************)
NonNegative(costs) == \A i \in 1..Len(costs) : costs[i] >= 0

\* C29 as stated: for a series of at least 7 non-negative amounts the
\* growth_rate of analyze_trend is at least -100, the projected_daily_avg of
\* simple_forecast is at least half of average_daily, and
\* projected_daily_avg, projected_total and monthly_run_rate are not
\* negative (amounts in cents, growth in hundredths of a percent)
C29_AtLeastHalf ==
  NonNegative(daily_costs) =>
    /\ TrendReturned => ret.value.growth_rate >= -10000
    /\ ForecastReturned =>
         /\ 2 * ret.value.projected_daily_avg >= TrendOf(daily_costs).average_daily
         /\ ret.value.projected_daily_avg >= 0
         /\ ret.value.projected_total >= 0
         /\ ret.value.monthly_run_rate >= 0

\* C29, amended: for a series of at least 7 non-negative amounts the
\* growth_rate of analyze_trend is at least -100, the projected_daily_avg of
\* simple_forecast, which is rounded to cents, is at least half of
\* average_daily less half a cent, and projected_daily_avg, projected_total
\* and monthly_run_rate are not negative
C29_ForecastFloor ==
  NonNegative(daily_costs) =>
    /\ TrendReturned => ret.value.growth_rate >= -10000
    /\ ForecastReturned =>
         /\ 2 * ret.value.projected_daily_avg >= TrendOf(daily_costs).average_daily - 1
         /\ ret.value.growth_rate >= -10000
         /\ ret.value.projected_daily_avg >= 0
         /\ ret.value.projected_total >= 0
         /\ ret.value.monthly_run_rate >= 0

\* one day of 100.00 and six of nothing: the average is 14.29, the growth
\* -100 percent, and the projected daily average is 7.14, below 7.145
C29_Witness ==
  /\ ForecastReturned
  /\ daily_costs = <<100, 0, 0, 0, 0, 0, 0>>
  /\ TrendOf(daily_costs).average_daily = 1429
  /\ ret.value.growth_rate = -10000
  /\ ret.value.projected_daily_avg = 714

(***************************************************************************)
(* Claims about a window of seven days                                     *)
(***************************************************************************)
\* the default z_threshold, 2.5
DefaultZThreshold == <<5, 2>>

WeekScanned ==
  /\ ret.op = "detect_anomalies"
  /\ Len(daily_costs) = MinPoints
  /\ ret.args[1] = DefaultZThreshold

\* C30: for a series of exactly 7 points and the default z_threshold of 2.5
\* no point reaches z >= 2.5, so every anomaly record returned by
\* detect_anomalies has reason 'iqr' and none has reason 'z-score'
C30_WeekHasNoZScore ==
  WeekScanned =>
    /\ \A i \in 1..Len(daily_costs) :
         ~ZReaches(daily_costs, i, DefaultZThreshold[1], DefaultZThreshold[2])
    /\ \A k \in 1..Len(ret.value.anomalies) :
         /\ ret.value.anomalies[k].reason = "iqr"
         /\ ret.value.anomalies[k].z_score < 250

\* one day of 100.00 and six of nothing: the day is flagged by the fence,
\* with the largest z a point of seven can have, sqrt(6) = 2.45
C30_Witness ==
  /\ WeekScanned
  /\ Len(ret.value.anomalies) = 1
  /\ ret.value.anomalies[1].reason = "iqr"
  /\ ret.value.anomalies[1].z_score = 245

====
